---- MODULE Spec2Model ----
(***************************************************************************)
(* Model of the image-to-action pipeline of auto-draw-bot:                 *)
(*   - palette matching (AutoDraw.find_closest_color, rgb2lab,             *)
(*     delta_e_cie94),                                                     *)
(*   - the drawing executor AutoDraw.draw_image in pixel and outline       *)
(*     style, and the CLI executor SimpleAutoDraw.draw_image,              *)
(*   - the ESC callback (stop_drawing_callback) as an asynchronous step,   *)
(*   - failing pointer-actuator calls (pyautogui raising an exception).    *)
(* Colours are triples <<r, g, b>>.  Real numbers are fixed-point          *)
(* integers: Lab components and colour distances in units of 1/100,       *)
(* device coordinates in units of 1/2 (pixel centres are half-integers).   *)
(***************************************************************************)
EXTENDS Integers, Sequences, FiniteSets, TLC

(***************************************************************************)
(* Bounds of the model.                                                    *)
(***************************************************************************)
\* longest palette of the palette-matching specification
MaxMatchLen == 3
\* largest bitmap (width * height) of a pixel-style or CLI session
MaxPixArea == 4
\* largest bitmap (width * height) of an outline-style session
MaxOutArea == 6
\* number of pointer-actuator calls that may fail in one session
MaxFailures == 1
\* largest bitmap (width * height) of the tracing specification
MaxTraceArea == 9
\* side of the square bitmaps that hold one straight line
LineMax == 10

(***************************************************************************)
(* Colour universe.                                                        *)
(***************************************************************************)
Black   == <<0, 0, 0>>
Red     == <<255, 0, 0>>
DarkRed == <<128, 0, 0>>
White   == <<255, 255, 255>>
Gray    == <<128, 128, 128>>
Blue    == <<0, 0, 255>>

MatchColors == {Black, Red, DarkRed, White, Gray, Blue}

\* float('inf') of find_closest_color, larger than every distance
Inf == 2147483647

Abs(n) == IF n < 0 THEN -n ELSE n

RECURSIVE ISqrtIter(_, _, _)
ISqrtIter(n, lo, hi) ==
    IF lo >= hi THEN lo
    ELSE LET mid == (lo + hi + 1) \div 2
         IN  IF mid * mid <= n THEN ISqrtIter(n, mid, hi)
                               ELSE ISqrtIter(n, lo, mid - 1)

\* x ** 0.5 on fixed-point integers (floor of the square root)
ISqrt(n) == ISqrtIter(n, 0, 46340)

(***************************************************************************)
(* rgb2lab: the sRGB -> XYZ -> Lab conversion, tabulated on the colour     *)
(* universe in units of 1/100 (the values the source's formula yields,     *)
(* rounded to two decimals).                                               *)
(***************************************************************************)
\* a conversion that reads the red channel three times
rgb2lab_red_channel(rgb) ==
    LET gray == <<rgb[1], rgb[1], rgb[1]>>
    IN  CASE gray = Black -> <<0, 0, 0>>
          [] gray = White -> <<10000, 1, -1>>
          [] gray = Gray  -> <<5359, 0, -1>>

rgb2lab(rgb) ==
    CASE rgb = Black   -> <<0, 0, 0>>
      [] rgb = Red     -> <<5323, 8011, 6722>>
      [] rgb = DarkRed -> <<2553, 4806, 3806>>
      [] rgb = White   -> <<10000, 1, -1>>
      [] rgb = Gray    -> <<5359, 0, -1>>
      [] rgb = Blue    -> <<3230, 7920, -10786>>

(***************************************************************************)
(* delta_e_cie94: CIE94 distance of two Lab colours, kL = 1, K1 = 0.045,   *)
(* K2 = 0.015, chroma weights taken from the first colour.  The hue term   *)
(* is clamped to 0 when the value under the root is negative.              *)
(***************************************************************************)
\* a distance whose chroma term adds the two chromas
delta_e_cie94_chroma_sum(lab1, lab2) ==
    LET dL == lab1[1] - lab2[1]
        da == lab1[2] - lab2[2]
        db == lab1[3] - lab2[3]
        c1 == ISqrt(lab1[2] * lab1[2] + lab1[3] * lab1[3])
        c2 == ISqrt(lab2[2] * lab2[2] + lab2[3] * lab2[3])
        dC == c1 + c2
        dhSquared == da * da + db * db - dC * dC
        dH == IF dhSquared < 0 THEN 0 ELSE ISqrt(dhSquared)
        sc == 1000 + (45 * c1) \div 100
        sh == 1000 + (15 * c1) \div 100
        tC == (Abs(dC) * 1000) \div sc
        tH == (dH * 1000) \div sh
    IN  ISqrt(dL * dL + tC * tC + tH * tH)

delta_e_cie94(lab1, lab2) ==
    LET dL == lab1[1] - lab2[1]
        da == lab1[2] - lab2[2]
        db == lab1[3] - lab2[3]
        c1 == ISqrt(lab1[2] * lab1[2] + lab1[3] * lab1[3])
        c2 == ISqrt(lab2[2] * lab2[2] + lab2[3] * lab2[3])
        dC == c1 - c2
        dhSquared == da * da + db * db - dC * dC
        dH == IF dhSquared < 0 THEN 0 ELSE ISqrt(dhSquared)
        sc == 1000 + (45 * c1) \div 100
        sh == 1000 + (15 * c1) \div 100
        tC == (Abs(dC) * 1000) \div sc
        tH == (dH * 1000) \div sh
    IN  ISqrt(dL * dL + tC * tC + tH * tH)

\* delta_e_cie94(rgb2lab(a), rgb2lab(b)) for every pair of the colour
\* universe, evaluated once
DistanceTable ==
    [pair \in MatchColors \X MatchColors |->
        delta_e_cie94(rgb2lab(pair[1]), rgb2lab(pair[2]))]

\* the distance the loop of find_closest_color computes for palette entry i
Distance(palette, color, i) == DistanceTable[<<color, palette[i]>>]

(***************************************************************************)
(* The scan of find_closest_color: i is the next palette index, min the    *)
(* running min_distance, idx the index of the entry held in closest_color  *)
(* (0 for None).  Returns the final idx.                                   *)
(***************************************************************************)
RECURSIVE ScanLastMin(_, _, _, _, _)
ScanLastMin(palette, color, i, min, idx) ==
    IF i > Len(palette) THEN idx
    ELSE LET distance == Distance(palette, color, i)
         IN  IF distance <= min
             THEN ScanLastMin(palette, color, i + 1, distance, i)
             ELSE ScanLastMin(palette, color, i + 1, min, idx)

RECURSIVE ScanPalette(_, _, _, _, _)
ScanPalette(palette, color, i, min, idx) ==
    IF i > Len(palette) THEN idx
    ELSE LET distance == Distance(palette, color, i)
         IN  IF distance < min
             THEN ScanPalette(palette, color, i + 1, distance, i)
             ELSE ScanPalette(palette, color, i + 1, min, idx)

\* index of the palette entry find_closest_color returns (0: empty palette)
ClosestIndex(palette, color) == ScanPalette(palette, color, 1, Inf, 0)

\* number of delta_e_cie94 evaluations of one find_closest_color call
DistanceCalls(palette) == Len(palette)

\* find_closest_color without its "if not self.palette" guard: the loop
\* body never runs and closest_color is still None
find_closest_color_unguarded(palette, color) ==
    IF ClosestIndex(palette, color) = 0 THEN <<>>
    ELSE palette[ClosestIndex(palette, color)]

find_closest_color(palette, color) ==
    IF palette = <<>> THEN color
    ELSE palette[ClosestIndex(palette, color)]

\* all sequences over S of length 0..n
SeqsUpTo(S, n) == UNION {[1..k -> S] : k \in 0..n}

(***************************************************************************)
(* Bitmaps.  A pixel is <<x, y>>, 0 <= x < width, 0 <= y < height; a       *)
(* bitmap maps every pixel to [rgb, a].  RowMajor is the scan order        *)
(* "for y in range(height): for x in range(width)".                        *)
(***************************************************************************)
PixelSet(w, h) == (0..(w - 1)) \X (0..(h - 1))

RowMajor(w, h) == [i \in 1..(w * h) |-> <<(i - 1) % w, (i - 1) \div w>>]

Shapes(maxArea) ==
    {s \in (1..maxArea) \X (1..maxArea) : s[1] * s[2] <= maxArea}

Opaque(rgb) == [rgb |-> rgb, a |-> 255]
Transparent(rgb) == [rgb |-> rgb, a |-> 0]

\* white_threshold of AutoDraw.process_image and AutoDraw.draw_image
white_threshold == 245
\* white_threshold of SimpleAutoDraw.process_image
cli_white_threshold == 240

AllAtLeast(rgb, t) == rgb[1] >= t /\ rgb[2] >= t /\ rgb[3] >= t

(***************************************************************************)
(* Background marking of AutoDraw.process_image: the image is converted    *)
(* to RGB (source alpha dropped); with skip_white it becomes RGBA and      *)
(* every pixel with all channels >= 245 gets alpha 0.                      *)
(***************************************************************************)
process_image(src, skip) ==
    [p \in DOMAIN src |->
        IF skip /\ AllAtLeast(src[p].rgb, white_threshold)
        THEN Transparent(src[p].rgb)
        ELSE Opaque(src[p].rgb)]

(***************************************************************************)
(* Background marking of SimpleAutoDraw.process_image: the image is RGBA   *)
(* (load_image converts it); with skip_white every pixel with all          *)
(* channels >= 240 gets alpha 0, every other pixel keeps its alpha.        *)
(***************************************************************************)
cli_process_image(src, skip) ==
    [p \in DOMAIN src |->
        IF skip /\ AllAtLeast(src[p].rgb, cli_white_threshold)
        THEN Transparent(src[p].rgb)
        ELSE src[p]]

(***************************************************************************)
(* Pixel-style planning of AutoDraw.draw_image.  Device coordinates are    *)
(* kept doubled: the centre x1 + x * pixel_width + pixel_width / 2 is      *)
(* stored as 2 * x1 + 2 * x * pixel_width + pixel_width.                   *)
(***************************************************************************)
pixel_width(area, w) == (area[3] - area[1]) \div w
pixel_height(area, h) == (area[4] - area[2]) \div h

\* <<pos_x, pos_y>> of pixel p, doubled
PixelCentre(area, w, h, p) ==
    << 2 * area[1] + 2 * p[1] * pixel_width(area, w) + pixel_width(area, w),
       2 * area[2] + 2 * p[2] * pixel_height(area, h) + pixel_height(area, h) >>

\* the two "continue" tests of the grouping loop
SkippedPixel(px, hasAlpha) ==
    \/ AllAtLeast(px.rgb, white_threshold)
    \/ hasAlpha /\ px.a = 0

(***************************************************************************)
(* pixels_by_color: a dict in insertion order, modelled as the sequence    *)
(* of its keys (order of first encounter) and a function from key to the   *)
(* list of points.  GroupPixels folds the row-major scan from index i.     *)
(***************************************************************************)
SeqContains(s, e) == \E i \in 1..Len(s) : s[i] = e

\* a grouping that files every point under the first colour encountered
AppendPointMisfiled(groups, color, pt) ==
    IF groups.keys # <<>>
    THEN [groups EXCEPT !.pts[groups.keys[1]] = Append(@, pt)]
    ELSE [keys |-> <<color>>,
          pts  |-> [c \in {color} |-> <<pt>>]]

\* a grouping that keeps only the latest point of every colour
AppendPointLossy(groups, color, pt) ==
    IF SeqContains(groups.keys, color)
    THEN [groups EXCEPT !.pts[color] = <<pt>>]
    ELSE [keys |-> Append(groups.keys, color),
          pts  |-> [c \in DOMAIN groups.pts \cup {color} |->
                       IF c = color THEN <<pt>> ELSE groups.pts[c]]]

\* pixels_by_color[closest_color].append((x, y)), creating the list on first use
AppendPoint(groups, color, pt) ==
    IF SeqContains(groups.keys, color)
    THEN [groups EXCEPT !.pts[color] = Append(@, pt)]
    ELSE [keys |-> Append(groups.keys, color),
          pts  |-> [c \in DOMAIN groups.pts \cup {color} |->
                       IF c = color THEN <<pt>> ELSE groups.pts[c]]]

RECURSIVE GroupPixels(_, _, _, _, _, _, _, _)
GroupPixels(bm, hasAlpha, pal, area, w, h, i, groups) ==
    IF i > w * h THEN groups
    ELSE LET p  == RowMajor(w, h)[i]
             px == bm[p]
         IN  IF SkippedPixel(px, hasAlpha)
             THEN GroupPixels(bm, hasAlpha, pal, area, w, h, i + 1, groups)
             ELSE GroupPixels(bm, hasAlpha, pal, area, w, h, i + 1,
                      AppendPoint(groups, find_closest_color(pal, px.rgb),
                                  PixelCentre(area, w, h, p)))

EmptyGroups == [keys |-> <<>>, pts |-> <<>>]

pixels_by_color(bm, hasAlpha, pal, area, w, h) ==
    GroupPixels(bm, hasAlpha, pal, area, w, h, 1, EmptyGroups)

\* number of pixels the grouping loop passes to find_closest_color
RECURSIVE CountMatched(_, _, _, _, _)
CountMatched(bm, hasAlpha, w, h, i) ==
    IF i > w * h THEN 0
    ELSE (IF SkippedPixel(bm[RowMajor(w, h)[i]], hasAlpha) THEN 0 ELSE 1)
         + CountMatched(bm, hasAlpha, w, h, i + 1)

(***************************************************************************)
(* sorted(pixels_by_color.keys(), key=lambda c: sum(c)): a stable sort by  *)
(* channel sum.  A key that find_closest_color returned unchanged (empty   *)
(* palette) is a tuple of numpy.uint8 read from np.array(processed_image); *)
(* sum() of it is exact where numpy promotes "0 + uint8" to int64          *)
(* (numpy 1.x) and wraps modulo 256 where the result stays uint8           *)
(* (numpy 2.x).  The requirement "numpy>=1.19.0" admits both.              *)
(***************************************************************************)
ChannelSum(c) == c[1] + c[2] + c[3]

\* sum(c) as the sort sees it
SortKey(c, wraps) == IF wraps THEN ChannelSum(c) % 256 ELSE ChannelSum(c)

RECURSIVE InsertByKey(_, _, _)
InsertByKey(sorted, c, wraps) ==
    IF sorted = <<>> THEN <<c>>
    ELSE IF SortKey(sorted[Len(sorted)], wraps) <= SortKey(c, wraps)
         THEN Append(sorted, c)
         ELSE Append(InsertByKey(SubSeq(sorted, 1, Len(sorted) - 1), c, wraps),
                     sorted[Len(sorted)])

RECURSIVE SortByKey(_, _, _, _)
SortByKey(keys, i, sorted, wraps) ==
    IF i > Len(keys) THEN sorted
    ELSE SortByKey(keys, i + 1, InsertByKey(sorted, keys[i], wraps), wraps)

sorted_colors(keys, wraps) == SortByKey(keys, 1, <<>>, wraps)

\* the ways sum() can treat the keys of this session
KeyWraps(pal) == IF pal = <<>> THEN {FALSE, TRUE} ELSE {FALSE}

(***************************************************************************)
(* grid_cells: the points of one colour partitioned into GRID_SIZE cells,  *)
(* a dict in insertion order, modelled as the sequence of its values.      *)
(***************************************************************************)
GRID_SIZE == 20

\* cell_key of a (doubled) point
CellKey(area, pt) ==
    << (pt[1] - 2 * area[1]) \div (2 * GRID_SIZE),
       (pt[2] - 2 * area[2]) \div (2 * GRID_SIZE) >>

RECURSIVE GridCells(_, _, _, _, _)
GridCells(area, pts, i, keys, cells) ==
    IF i > Len(pts) THEN cells
    ELSE LET k == CellKey(area, pts[i])
         IN  IF SeqContains(keys, k)
             THEN LET n == CHOOSE m \in 1..Len(keys) : keys[m] = k
                  IN  GridCells(area, pts, i + 1, keys,
                                [cells EXCEPT ![n] = Append(@, pts[i])])
             ELSE GridCells(area, pts, i + 1, Append(keys, k),
                            Append(cells, <<pts[i]>>))

grid_cells(area, pts) == GridCells(area, pts, 1, <<>>, <<>>)

(***************************************************************************)
(* Nearest-neighbour ordering of one cell.  The source compares            *)
(* ((dx)**2 + (dy)**2)**0.5 with "<"; the square root is monotone, so the  *)
(* squared distances are compared.                                         *)
(***************************************************************************)
Dist2(p, q) == (p[1] - q[1]) * (p[1] - q[1]) + (p[2] - q[2]) * (p[2] - q[2])

\* a scan that keeps the last of the nearest points
RECURSIVE NearestIdxLast(_, _, _, _, _)
NearestIdxLast(remaining, last, i, nearest_idx, nearest_dist) ==
    IF i > Len(remaining) THEN nearest_idx
    ELSE LET dist == Dist2(remaining[i], last)
         IN  IF dist <= nearest_dist
             THEN NearestIdxLast(remaining, last, i + 1, i, dist)
             ELSE NearestIdxLast(remaining, last, i + 1, nearest_idx, nearest_dist)

\* the scan "for i, pixel in enumerate(remaining)": returns nearest_idx
RECURSIVE NearestIdx(_, _, _, _, _)
NearestIdx(remaining, last, i, nearest_idx, nearest_dist) ==
    IF i > Len(remaining) THEN nearest_idx
    ELSE LET dist == Dist2(remaining[i], last)
         IN  IF dist < nearest_dist
             THEN NearestIdx(remaining, last, i + 1, i, dist)
             ELSE NearestIdx(remaining, last, i + 1, nearest_idx, nearest_dist)

RemoveAt(s, i) == SubSeq(s, 1, i - 1) \o SubSeq(s, i + 1, Len(s))

RECURSIVE NearestLoop(_, _)
NearestLoop(sorted_pixels, remaining) ==
    IF remaining = <<>> THEN sorted_pixels
    ELSE LET n == NearestIdx(remaining, sorted_pixels[Len(sorted_pixels)],
                             1, 1, Inf)
         IN  NearestLoop(Append(sorted_pixels, remaining[n]),
                         RemoveAt(remaining, n))

order_cell(cell_pixels) ==
    IF Len(cell_pixels) > 1
    THEN NearestLoop(<<cell_pixels[1]>>, Tail(cell_pixels))
    ELSE cell_pixels

\* the cells of one colour, each in drawing order
ordered_cells(area, pts) ==
    LET cells == grid_cells(area, pts)
    IN  [n \in 1..Len(cells) |-> order_cell(cells[n])]

(***************************************************************************)
(* Outline-style planning of AutoDraw.draw_image.                          *)
(***************************************************************************)
\* "if sum(pixel) < 450": the dark predicate
dark_limit == 450

IsDark(px) == ChannelSum(px.rgb) < dark_limit

RECURSIVE OutlineScan(_, _, _, _)
OutlineScan(bm, w, h, i) ==
    IF i > w * h THEN <<>>
    ELSE LET p == RowMajor(w, h)[i]
         IN  (IF IsDark(bm[p]) THEN <<p>> ELSE <<>>)
             \o OutlineScan(bm, w, h, i + 1)

outline_pixels(bm, w, h) == OutlineScan(bm, w, h, 1)

\* a neighbour list without the diagonals
directions_orthogonal ==
    << <<-1, 0>>, <<0, -1>>, <<0, 1>>, <<1, 0>> >>

\* the fixed neighbour-scan order, as <<dx, dy>>
directions ==
    << <<-1, -1>>, <<-1, 0>>, <<-1, 1>>, <<0, -1>>,
       <<0, 1>>, <<1, -1>>, <<1, 0>>, <<1, 1>> >>

Range(s) == {s[i] : i \in 1..Len(s)}

Neighbour(cur, d) == <<cur[1] + directions[d][1], cur[2] + directions[d][2]>>

\* directions whose neighbour is an outline pixel that is not yet visited
OpenDirections(cur, outline, seen) ==
    {d \in 1..Len(directions) :
        Neighbour(cur, d) \in Range(outline) /\ Neighbour(cur, d) \notin seen}

\* the neighbour the inner "for dx, dy in directions" loop breaks on
NextPoint(cur, outline, seen) ==
    LET open == OpenDirections(cur, outline, seen)
        d    == CHOOSE m \in open : \A n \in open : m <= n
    IN  Neighbour(cur, d)

\* "if len(segment) > 1: line_segments.append(segment)"
KeepSegment(seg) == Len(seg) > 1

(***************************************************************************)
(* Planning of SimpleAutoDraw.draw_image: every pixel whose alpha is not   *)
(* 0, in row-major order.                                                  *)
(***************************************************************************)
RECURSIVE CliScan(_, _, _, _, _)
CliScan(bm, area, w, h, i) ==
    IF i > w * h THEN <<>>
    ELSE LET p == RowMajor(w, h)[i]
         IN  (IF bm[p].a = 0 THEN <<>> ELSE <<PixelCentre(area, w, h, p)>>)
             \o CliScan(bm, area, w, h, i + 1)

\* a scan that takes the pixels column by column
pixels_to_draw_by_column(bm, area, w, h) ==
    LET columns == [i \in 1..(w * h) |-> <<(i - 1) \div h, (i - 1) % h>>]
        kept == SelectSeq(columns, LAMBDA p : bm[p].a # 0)
    IN  [k \in 1..Len(kept) |-> PixelCentre(area, w, h, kept[k])]

\* skipped_pixels at the end of the scan: one for every pixel of alpha 0
cli_skipped_pixels(bm, w, h) == Cardinality({p \in PixelSet(w, h) : bm[p].a = 0})

pixels_to_draw(bm, area, w, h) == CliScan(bm, area, w, h, 1)

(***************************************************************************)
(* State.                                                                  *)
(***************************************************************************)
VARIABLES
    executor,        \* "gui": AutoDraw, "cli": SimpleAutoDraw, "match"
    style,           \* self.style: "pixel", "outline" or "vector"
    width, height,   \* dimensions of processed_image
    img,             \* self.processed_image
    has_alpha,       \* processed_image has four channels
    skip_white,      \* self.skip_white
    palette,         \* self.palette
    color_positions, \* the colours that are keys of self.color_positions
    canvas_area,     \* self.canvas_area = <<x1, y1, x2, y2>>
    stop_drawing,    \* self.stop_drawing, the cancellation flag
    hooks,           \* number of installed ESC key hooks
    pc,              \* position of draw_image
    trace,           \* the actuator calls made so far, in order
    fail_budget,     \* failures the pointer actuator may still produce
    cancel_at,       \* completed actions when ESC set the flag, -1 before
    dist_calls,      \* number of delta_e_cie94 evaluations so far
    by_color,        \* pixels_by_color
    colors,          \* sorted_colors
    ci,              \* index of the current colour in sorted_colors
    cells,           \* the cells of the current colour, in drawing order
    cell_i, pix_i,   \* current cell, current pixel of the cell
    depth,           \* nested find_closest_color_in_palette calls
    outline_px,      \* outline_pixels
    visited,         \* visited
    line_segments,   \* line_segments
    segment,         \* the segment being traced
    all_paths,       \* every path the tracing loop closed, kept or not
    current,         \* current
    ti,              \* index of the tracing loop in outline_pixels
    si,              \* index of the segment being drawn
    dj,              \* index in the segment of the next drag target
    to_draw,         \* pixels_to_draw of the CLI executor
    cli_i,           \* index of the CLI drawing loop
    query,           \* argument of a find_closest_color call
    closest,         \* its result
    closest_idx,     \* palette index of the entry returned, 0 for none
    driver,          \* the caller of draw_image, "none" for a direct call
    image,           \* self.image where a specification runs process_image
    report,          \* what the caller told the user, "none" before
    speed,           \* self.speed in milliseconds
    resolution,      \* self.resolution in percent
    screen,          \* pyautogui.size() = <<screen_width, screen_height>>
    pickable,        \* colours set_target_color finds a screen position for
    drawn,           \* pixels_drawn, in outline style points_drawn
    log,             \* the log lines of draw_image that state a count
    recent_files,    \* AutoDrawGUI.recent_files
    file_path,       \* the path the file dialog returned last, and whether
                     \* the file exists
    previewed        \* the path load_and_preview_image was called with last

session == <<driver, image, report, speed, resolution, screen, pickable>>
inputs == <<executor, style, width, height, img, has_alpha, skip_white,
            palette, color_positions, canvas_area, session>>
pixvars == <<by_color, colors, ci, cells, cell_i, pix_i, depth>>
outvars == <<outline_px, visited, line_segments, segment, all_paths, current,
            ti, si, dj>>
clivars == <<to_draw, cli_i>>
matchvars == <<query, closest, closest_idx>>
logvars == <<drawn, log>>
guivars == <<recent_files, file_path, previewed>>
vars == <<inputs, stop_drawing, hooks, pc, trace, fail_budget, cancel_at,
          dist_calls, pixvars, outvars, clivars, matchvars, logvars, guivars>>

(***************************************************************************)
(* Actuator calls.  A trace entry is one call: op names the planned action *)
(* it performs, ok tells whether the call returned (TRUE) or raised.       *)
(***************************************************************************)
NoColor == <<>>
\* self.image = None, self.processed_image = None
NoImage == <<>>
\* no path (paths are numbered from 1): the empty string of a cancelled
\* dialog, nothing previewed
NoFile == 0
\* default=0.001 of --speed, in milliseconds
default_speed == 1
\* default=1.0 of --resolution, in percent
default_resolution == 100

\* self.canvas_area = None
NoRegion == <<>>

\* a common pyautogui.size()
FullHD == <<1920, 1080>>

\* a default region put into the top-left corner of the screen
default_area_at_origin(scr, w, h) == <<0, 0, w, h>>

\* the region draw_image substitutes when canvas_area is not set:
\* x1 = (screen_width - width) // 2, y1 = (screen_height - height) // 2,
\* (x1, y1, x1 + width, y1 + height)
default_area(scr, w, h) ==
    LET x1 == (scr[1] - w) \div 2
        y1 == (scr[2] - h) \div 2
    IN  <<x1, y1, x1 + w, y1 + h>>

\* "if pixels_drawn % 500 == 0" of the pixel style, "if i % 500 == 0" of
\* the CLI executor
progress_every == 500

\* "if points_drawn % 100 == 0" of the outline style
outline_progress_every == 100

\* a log line that states how many pixels or points have been drawn:
\* "Progress: n/total ..." or "Drawing completed: n pixels ..."
Logged(kind, n) == [kind |-> kind, done |-> n]

Act(op, x, y, color, ok) ==
    [op |-> op, x |-> x, y |-> y, color |-> color, ok |-> ok, settle |-> 0]

MoveTo(pt, ok) == Act("MoveTo", pt[1], pt[2], NoColor, ok)
Click(ok) == Act("Click", -1, -1, NoColor, ok)
PressDown(ok) == Act("PressDown", -1, -1, NoColor, ok)
DragTo(pt, ok) == Act("DragTo", pt[1], pt[2], NoColor, ok)
Release(ok) == Act("Release", -1, -1, NoColor, ok)

Max(a, b) == IF a >= b THEN a ELSE b

\* a settle delay that follows the speed alone
select_delay_unfloored == 2 * speed

\* time.sleep(max(0.2, self.speed * 2)) after set_target_color, in ms
select_delay == Max(200, 2 * speed)

\* time.sleep(0.3) after the click on the position of black, in ms
black_delay == 300

\* a colour selection and the sleep of draw_image that follows it
SelectColorAct(c, ok) ==
    [Act("SelectColor", -1, -1, c, ok) EXCEPT !.settle = select_delay]

\* the outcomes the pointer actuator can still produce
Outcomes == IF fail_budget > 0 THEN {TRUE, FALSE} ELSE {TRUE}

Spend(ok) == fail_budget' = (IF ok THEN fail_budget ELSE fail_budget - 1)

\* number of calls of the trace that completed
CountOk(t) == Cardinality({i \in 1..Len(t) : t[i].ok})

Completed == CountOk(trace)

Terminal == {"finished", "stopped", "error", "rejected"}

\* region corner, doubled like every trace coordinate
Corner == <<2 * canvas_area[1], 2 * canvas_area[2]>>

(***************************************************************************)
(* Initial states: a processed image, a palette, a region.                 *)
(***************************************************************************)
GuiColors == {Black, Red, White}
CliPixels == {Opaque(Black), Opaque(White), Transparent(Red)}
OutlineColors == {Black, White}
PaletteColors == {Red, Black}
\* self.palette of a session: empty, one entry, two entries in either order
SessionPalettes == {<<>>, <<Red>>, <<Black>>, <<Red, Black>>, <<Black, Red>>}

Origin == <<100, 50>>
\* <<pixel_width, pixel_height>> of the regions drawn in Init
ScalePairs == {<<1, 1>>, <<3, 1>>, <<20, 20>>}

Region(w, h, sc) ==
    <<Origin[1], Origin[2], Origin[1] + w * sc[1], Origin[2] + h * sc[2]>>

\* values of the variables no session has assigned yet
\* everything draw_image computes, before the call
InitScratch ==
    /\ hooks = 0
    /\ trace = <<>>
    /\ cancel_at = -1
    /\ dist_calls = 0
    /\ by_color = EmptyGroups
    /\ colors = <<>>
    /\ ci = 1
    /\ cells = <<>>
    /\ cell_i = 1
    /\ pix_i = 1
    /\ depth = 0
    /\ outline_px = <<>>
    /\ visited = {}
    /\ line_segments = <<>>
    /\ segment = <<>>
    /\ all_paths = <<>>
    /\ current = <<0, 0>>
    /\ ti = 1
    /\ si = 1
    /\ dj = 2
    /\ to_draw = <<>>
    /\ cli_i = 1
    /\ closest = NoColor
    /\ closest_idx = 0
    /\ drawn = 0
    /\ log = <<>>
    /\ recent_files = <<>>
    /\ file_path = [path |-> NoFile, exists |-> FALSE]
    /\ previewed = NoFile

\* a first call: the flag still has the value __init__ gave it
InitLocals ==
    /\ stop_drawing = FALSE
    /\ InitScratch

InitGuiPixel ==
    /\ executor = "gui"
    /\ style = "pixel"
    /\ skip_white = TRUE
    /\ has_alpha = skip_white
    /\ \E s \in Shapes(MaxPixArea) :
         /\ width = s[1]
         /\ height = s[2]
         /\ \E src \in [PixelSet(s[1], s[2]) -> {Opaque(c) : c \in GuiColors}] :
              img = process_image(src, skip_white)
         /\ \E sc \in ScalePairs : canvas_area = Region(s[1], s[2], sc)
    /\ palette \in SessionPalettes
    /\ color_positions = {}
    /\ query = NoColor

InitGuiOutline ==
    /\ executor = "gui"
    /\ style = "outline"
    /\ \E s \in Shapes(MaxOutArea) :
         /\ width = s[1]
         /\ height = s[2]
         /\ img \in [PixelSet(s[1], s[2]) -> {Opaque(c) : c \in OutlineColors}]
         /\ canvas_area = Region(s[1], s[2], <<1, 1>>)
    /\ skip_white = TRUE
    /\ has_alpha = FALSE
    /\ palette \in SessionPalettes
    /\ color_positions \in {{}, {Black}}
    /\ query = NoColor

InitCli ==
    /\ executor = "cli"
    /\ style = "pixel"
    /\ skip_white \in BOOLEAN
    /\ \E s \in Shapes(MaxPixArea) :
         /\ width = s[1]
         /\ height = s[2]
         /\ \E src \in [PixelSet(s[1], s[2]) -> CliPixels] :
              img = cli_process_image(src, skip_white)
         /\ \E sc \in ScalePairs : canvas_area = Region(s[1], s[2], sc)
    /\ has_alpha = TRUE
    /\ palette = <<>>
    /\ color_positions = {}
    /\ query = NoColor

\* a direct call of draw_image on an object that holds a processed image:
\* draw_image never reads self.image; speed has its argparse default
InitDirectCall ==
    /\ driver = "none"
    /\ image = NoImage
    /\ report = "none"
    /\ speed = default_speed
    /\ resolution = default_resolution
    /\ screen = FullHD
    /\ pickable = MatchColors

Init ==
    /\ InitLocals
    /\ InitDirectCall
    /\ pc = "ready"
    /\ fail_budget = MaxFailures
    /\ \/ InitGuiPixel
       \/ InitGuiOutline
       \/ InitCli

(***************************************************************************)
(* draw_image, common prologue: reset the stop flag, install the ESC hook,  *)
(* substitute the centred region when no region is set.                    *)
(***************************************************************************)
\* a prologue without the test of self.processed_image
StartUnchecked ==
    /\ pc = "ready"
    /\ executor \in {"gui", "cli"}
    /\ stop_drawing' = FALSE
    /\ cancel_at' = -1
    /\ hooks' = hooks + 1
    /\ canvas_area' = IF canvas_area = NoRegion
                      THEN default_area(screen, width, height)
                      ELSE canvas_area
    /\ drawn' = 0
    /\ log' = <<>>
    /\ pc' = IF executor = "gui" THEN "position" ELSE "plan"
    /\ UNCHANGED <<executor, style, width, height, img, has_alpha, skip_white,
                   palette, color_positions, session, trace, fail_budget,
                   dist_calls, pixvars, outvars, clivars, matchvars, guivars>>

\* a prologue that leaves the stop flag as the session before left it
StartKeepsFlag ==
    /\ pc = "ready"
    /\ executor \in {"gui", "cli"}
    /\ img # NoImage
    /\ cancel_at' = -1
    /\ hooks' = hooks + 1
    /\ canvas_area' = IF canvas_area = NoRegion
                      THEN default_area(screen, width, height)
                      ELSE canvas_area
    /\ drawn' = 0
    /\ log' = <<>>
    /\ pc' = IF executor = "gui" THEN "position" ELSE "plan"
    /\ UNCHANGED <<executor, style, width, height, img, has_alpha, skip_white,
                   palette, color_positions, session, trace, fail_budget,
                   stop_drawing, dist_calls, pixvars, outvars, clivars,
                   matchvars, guivars>>

Start ==
    /\ pc = "ready"
    /\ executor \in {"gui", "cli"}
    /\ img # NoImage
    /\ stop_drawing' = FALSE
    /\ cancel_at' = -1
    /\ hooks' = hooks + 1
    /\ canvas_area' = IF canvas_area = NoRegion
                      THEN default_area(screen, width, height)
                      ELSE canvas_area
    /\ drawn' = 0
    /\ log' = <<>>
    /\ pc' = IF executor = "gui" THEN "position" ELSE "plan"
    /\ UNCHANGED <<executor, style, width, height, img, has_alpha, skip_white,
                   palette, color_positions, session, trace, fail_budget,
                   dist_calls, pixvars, outvars, clivars, matchvars, guivars>>

\* stop_drawing_callback, run by the key hook while draw_image is running
Cancel ==
    /\ hooks > 0
    /\ pc \notin Terminal
    /\ ~stop_drawing
    /\ stop_drawing' = TRUE
    /\ cancel_at' = Completed
    /\ UNCHANGED <<inputs, hooks, pc, trace, fail_budget, dist_calls,
                   pixvars, outvars, clivars, matchvars, guivars, logvars>>

(***************************************************************************)
(* AutoDraw.draw_image.  An exception of an actuator call reaches the      *)
(* outer "except": the hook is removed and draw_image returns False.       *)
(***************************************************************************)
\* pyautogui.moveTo(x1, y1)
InitialMove ==
    /\ pc = "position"
    /\ executor = "gui"
    /\ \E ok \in Outcomes :
         /\ trace' = Append(trace, MoveTo(Corner, ok))
         /\ Spend(ok)
         /\ pc' = IF ok THEN "plan" ELSE "error"
         /\ hooks' = IF ok THEN hooks ELSE 0
    /\ UNCHANGED <<inputs, stop_drawing, cancel_at, dist_calls,
                   pixvars, outvars, clivars, matchvars, guivars, logvars>>

\* the grouping loop and the sort of the colours
PlanPixels ==
    /\ pc = "plan"
    /\ executor = "gui"
    /\ style = "pixel"
    /\ LET groups == pixels_by_color(img, has_alpha, palette, canvas_area,
                                     width, height)
       IN  /\ by_color' = groups
           /\ \E wraps \in KeyWraps(palette) :
                  colors' = sorted_colors(groups.keys, wraps)
    /\ dist_calls' = dist_calls
                     + CountMatched(img, has_alpha, width, height, 1)
                       * DistanceCalls(palette)
    /\ ci' = 1
    /\ pc' = "color_check"
    /\ UNCHANGED <<inputs, stop_drawing, hooks, trace, fail_budget, cancel_at,
                   cells, cell_i, pix_i, depth, outvars, clivars, matchvars, guivars, logvars>>

\* "elapsed = time.time() - start_time" of the completion log can be 0.0
\* only when no sleep lies between the two clock readings, that is when no
\* colour group was drawn: every group sleeps at least 0.2 s
ElapsedZero == IF colors = <<>> THEN {TRUE, FALSE} ELSE {FALSE}

\* head of "for color in sorted_colors" with its stop test; after the last
\* colour the completion log divides pixels_drawn by elapsed, and the
\* ZeroDivisionError of a zero elapsed reaches the outer "except"
ColorCheck ==
    /\ pc = "color_check"
    /\ IF ci > Len(colors)
       THEN /\ \E zero \in ElapsedZero :
                 /\ pc' = IF zero THEN "error" ELSE "finished"
                 /\ log' = IF zero
                           THEN log
                           ELSE Append(log, Logged("completed", drawn))
            /\ hooks' = 0
       ELSE IF stop_drawing
       THEN /\ pc' = "stopped"
            /\ hooks' = hooks
            /\ log' = log
       ELSE /\ pc' = "select"
            /\ hooks' = hooks
            /\ log' = log
    /\ UNCHANGED <<inputs, stop_drawing, trace, fail_budget, cancel_at,
                   dist_calls, pixvars, outvars, clivars, matchvars, guivars, drawn>>

\* deepest nesting of find_closest_color_in_palette the model follows; in
\* the program the interpreter's recursion limit ends the nesting
recursion_limit == 2

\* a palette search whose nesting starts over instead of running into the
\* recursion limit
PaletteSearchEndless ==
    /\ pc = "select"
    /\ colors[ci] \notin pickable
    /\ depth' = (depth + 1) % recursion_limit
    /\ UNCHANGED <<inputs, stop_drawing, hooks, pc, trace, fail_budget,
                   cancel_at, dist_calls, by_color, colors, ci, cells, cell_i,
                   pix_i, outvars, clivars, matchvars, guivars, logvars>>

\* find_closest_color_in_palette found no match, located the "Edit Colors"
\* button, clicked it and called itself
PaletteSearch ==
    /\ pc = "select"
    /\ colors[ci] \notin pickable
    /\ depth < recursion_limit
    /\ depth' = depth + 1
    /\ UNCHANGED <<inputs, stop_drawing, hooks, pc, trace, fail_budget,
                   cancel_at, dist_calls, by_color, colors, ci, cells, cell_i,
                   pix_i, outvars, clivars, matchvars, guivars, logvars>>

\* whether set_target_color clicks a screen position for the colour: always
\* for a colour of pickable, possibly after "Edit Colors" opened the
\* extended palette, never otherwise
Found(c) ==
    IF c \in pickable THEN {TRUE}
    ELSE IF depth > 0 THEN {TRUE, FALSE} ELSE {FALSE}

\* self.set_target_color(color) returns, with or without a click on the
\* colour (its result is not looked at); then the sleep and the partition
\* into cells
SelectColor ==
    /\ pc = "select"
    /\ \E found \in Found(colors[ci]) :
         trace' = IF found
                  THEN Append(trace, SelectColorAct(colors[ci], TRUE))
                  ELSE trace
    /\ depth' = 0
    /\ cells' = ordered_cells(canvas_area, by_color.pts[colors[ci]])
    /\ cell_i' = 1
    /\ pix_i' = 1
    /\ pc' = "pixel_check"
    /\ UNCHANGED <<inputs, stop_drawing, hooks, fail_budget, cancel_at,
                   dist_calls, by_color, colors, ci, outvars, clivars,
                   matchvars, guivars, logvars>>

\* head of "for pos_x, pos_y in cell_pixels" with its stop test; an
\* exhausted cell logs the progress when pixels_drawn is a multiple of 500
\* and leads to the next cell, the last cell to the next colour
PixelCheck ==
    /\ pc = "pixel_check"
    /\ IF pix_i <= Len(cells[cell_i])
       THEN /\ pc' = IF stop_drawing THEN "stopped" ELSE "move"
            /\ UNCHANGED <<ci, cell_i, pix_i, log>>
       ELSE /\ log' = IF drawn % progress_every = 0
                      THEN Append(log, Logged("progress", drawn))
                      ELSE log
            /\ IF cell_i < Len(cells)
               THEN /\ cell_i' = cell_i + 1
                    /\ pix_i' = 1
                    /\ pc' = "pixel_check"
                    /\ ci' = ci
               ELSE /\ ci' = ci + 1
                    /\ pc' = "color_check"
                    /\ UNCHANGED <<cell_i, pix_i>>
    /\ UNCHANGED <<inputs, stop_drawing, hooks, trace, fail_budget, cancel_at,
                   dist_calls, by_color, colors, cells, depth, outvars,
                   clivars, matchvars, guivars, drawn>>

\* pyautogui.moveTo(pos_x, pos_y, duration=0)
PixelMove ==
    /\ pc = "move"
    /\ \E ok \in Outcomes :
         /\ trace' = Append(trace, MoveTo(cells[cell_i][pix_i], ok))
         /\ Spend(ok)
         /\ pc' = IF ok THEN "click" ELSE "error"
         /\ hooks' = IF ok THEN hooks ELSE 0
    /\ UNCHANGED <<inputs, stop_drawing, cancel_at, dist_calls,
                   pixvars, outvars, clivars, matchvars, guivars, logvars>>

\* pyautogui.click()
PixelClick ==
    /\ pc = "click"
    /\ \E ok \in Outcomes :
         /\ trace' = Append(trace, Click(ok))
         /\ Spend(ok)
         /\ pc' = IF ok THEN "pixel_check" ELSE "error"
         /\ hooks' = IF ok THEN hooks ELSE 0
         /\ pix_i' = IF ok THEN pix_i + 1 ELSE pix_i
         /\ drawn' = IF ok THEN drawn + 1 ELSE drawn
    /\ UNCHANGED <<inputs, stop_drawing, cancel_at, dist_calls,
                   by_color, colors, ci, cells, cell_i, depth, outvars,
                   clivars, matchvars, guivars, log>>

(***************************************************************************)
(* AutoDraw.draw_image, outline style.                                     *)
(***************************************************************************)
\* the scan for dark pixels; none: messagebox and "return False"
ScanOutline ==
    /\ pc = "plan"
    /\ executor = "gui"
    /\ style = "outline"
    /\ outline_px' = outline_pixels(img, width, height)
    /\ pc' = IF outline_px' = <<>> THEN "rejected" ELSE "select_black"
    /\ UNCHANGED <<inputs, stop_drawing, hooks, trace, fail_budget, cancel_at,
                   dist_calls, pixvars, visited, line_segments, segment,
                   all_paths, current, ti, si, dj, clivars, matchvars, guivars, logvars>>

\* black_color = find_closest_color((0, 0, 0)); click on its position, or
\* messagebox and "return False" when the position is not known
SelectBlack ==
    /\ pc = "select_black"
    /\ dist_calls' = dist_calls + DistanceCalls(palette)
    /\ LET black_color == find_closest_color(palette, Black)
       IN  IF black_color \in color_positions
           THEN \E ok \in Outcomes :
                  /\ trace' = Append(trace,
                        [SelectColorAct(black_color, ok)
                            EXCEPT !.settle = black_delay])
                  /\ Spend(ok)
                  /\ pc' = IF ok THEN "trace" ELSE "error"
                  /\ hooks' = IF ok THEN hooks ELSE 0
           ELSE /\ pc' = "rejected"
                /\ UNCHANGED <<trace, fail_budget, hooks>>
    /\ UNCHANGED <<inputs, stop_drawing, cancel_at, pixvars, outvars,
                   clivars, matchvars, guivars, logvars>>

\* head of "for point in outline_pixels": skip a visited point (or any
\* point once the flag is set), else start a segment
TraceOuter ==
    /\ pc = "trace"
    /\ IF ti > Len(outline_px)
       THEN /\ pc' = "seg_check"
            /\ si' = 1
            /\ UNCHANGED <<visited, segment, current, ti>>
       ELSE IF outline_px[ti] \in visited \/ stop_drawing
       THEN /\ ti' = ti + 1
            /\ pc' = "trace"
            /\ UNCHANGED <<visited, segment, current, si>>
       ELSE /\ segment' = <<outline_px[ti]>>
            /\ visited' = visited \cup {outline_px[ti]}
            /\ current' = outline_px[ti]
            /\ pc' = "extend"
            /\ UNCHANGED <<ti, si>>
    /\ UNCHANGED <<inputs, stop_drawing, hooks, trace, fail_budget, cancel_at,
                   dist_calls, pixvars, outline_px, line_segments, all_paths,
                   dj, clivars, matchvars, guivars, logvars>>

\* one round of "while not self.stop_drawing": extend the segment by the
\* first unvisited neighbour, or close it
TraceExtend ==
    /\ pc = "extend"
    /\ IF ~stop_drawing /\ OpenDirections(current, outline_px, visited) # {}
       THEN LET nxt == NextPoint(current, outline_px, visited)
            IN  /\ segment' = Append(segment, nxt)
                /\ visited' = visited \cup {nxt}
                /\ current' = nxt
                /\ pc' = "extend"
                /\ UNCHANGED <<line_segments, all_paths, ti>>
       ELSE /\ line_segments' = IF KeepSegment(segment)
                                THEN Append(line_segments, segment)
                                ELSE line_segments
            /\ all_paths' = Append(all_paths, segment)
            /\ ti' = ti + 1
            /\ pc' = "trace"
            /\ UNCHANGED <<segment, visited, current>>
    /\ UNCHANGED <<inputs, stop_drawing, hooks, trace, fail_budget, cancel_at,
                   dist_calls, pixvars, outline_px, si, dj, clivars,
                   matchvars, guivars, logvars>>

\* head of "for i, segment in enumerate(line_segments)" with its stop test;
\* both exits reach keyboard.unhook_all() and "return True"
SegCheck ==
    /\ pc = "seg_check"
    /\ IF si > Len(line_segments)
       THEN /\ pc' = "finished"
            /\ hooks' = 0
            /\ log' = Append(log, Logged("completed", drawn))
       ELSE IF stop_drawing
       THEN /\ pc' = "stopped"
            /\ hooks' = 0
            /\ log' = Append(log, Logged("completed", drawn))
       ELSE /\ pc' = "seg_move"
            /\ hooks' = hooks
            /\ log' = log
    /\ UNCHANGED <<inputs, stop_drawing, trace, fail_budget, cancel_at,
                   dist_calls, pixvars, outvars, clivars, matchvars, guivars, drawn>>

\* device position x1 + x, y1 + y of an outline pixel, doubled
OutlinePos(p) == <<2 * (canvas_area[1] + p[1]), 2 * (canvas_area[2] + p[2])>>

\* pyautogui.moveTo(pos_x, pos_y) to the first point of the segment
SegMove ==
    /\ pc = "seg_move"
    /\ \E ok \in Outcomes :
         /\ trace' = Append(trace, MoveTo(OutlinePos(line_segments[si][1]), ok))
         /\ Spend(ok)
         /\ pc' = IF ok THEN "seg_down" ELSE "error"
         /\ hooks' = IF ok THEN hooks ELSE 0
    /\ UNCHANGED <<inputs, stop_drawing, cancel_at, dist_calls,
                   pixvars, outvars, clivars, matchvars, guivars, logvars>>

\* a segment start that never presses the button
SegDownOmitted ==
    /\ pc = "seg_down"
    /\ pc' = "seg_drag"
    /\ dj' = 2
    /\ UNCHANGED <<inputs, stop_drawing, hooks, trace, fail_budget, cancel_at,
                   dist_calls, pixvars, outline_px, visited, line_segments,
                   segment, all_paths, current, ti, si, clivars, matchvars, guivars, logvars>>

\* pyautogui.mouseDown()
SegDown ==
    /\ pc = "seg_down"
    /\ \E ok \in Outcomes :
         /\ trace' = Append(trace, PressDown(ok))
         /\ Spend(ok)
         /\ pc' = IF ok THEN "seg_drag" ELSE "error"
         /\ hooks' = IF ok THEN hooks ELSE 0
    /\ dj' = 2
    /\ UNCHANGED <<inputs, stop_drawing, cancel_at, dist_calls, pixvars,
                   outline_px, visited, line_segments, segment, all_paths,
                   current, ti, si, clivars, matchvars, guivars, logvars>>

\* the drag loop with a stop test at the head of every round, which
\* draw_image does not have: it tests the flag between segments only
SegDragStoppable ==
    /\ pc = "seg_drag"
    /\ IF stop_drawing
       THEN /\ pc' = "stopped"
            /\ hooks' = 0
            /\ UNCHANGED <<trace, fail_budget, dj, logvars>>
       ELSE /\ \E ok \in Outcomes :
                 /\ trace' = Append(trace, DragTo(OutlinePos(line_segments[si][dj]), ok))
                 /\ Spend(ok)
                 /\ LET slept == speed >= 0 \/ (dj - 2) % 5 # 0
                         n == IF ok /\ slept THEN drawn + 1 ELSE drawn
                     IN  /\ drawn' = n
                         /\ log' = IF n # drawn /\ n % outline_progress_every = 0
                                   THEN Append(log, Logged("progress", n))
                                   ELSE log
            /\ dj' = dj + 1
            /\ pc' = IF dj < Len(line_segments[si]) THEN "seg_drag" ELSE "seg_up"
            /\ hooks' = hooks
    /\ UNCHANGED <<inputs, stop_drawing, cancel_at, dist_calls, pixvars,
                   outline_px, visited, line_segments, segment, all_paths,
                   current, ti, si, clivars, matchvars, guivars>>

\* one round of "for j, (x, y) in enumerate(segment[1:])": the moveTo is
\* inside try/except, an exception is logged and the loop goes on
SegDrag ==
    /\ pc = "seg_drag"
    /\ \E ok \in Outcomes :
         /\ trace' = Append(trace, DragTo(OutlinePos(line_segments[si][dj]), ok))
         /\ Spend(ok)
         \* "if j % 5 == 0: time.sleep(self.speed * 0.5)" raises for a negative
         \* speed before points_drawn is incremented; the "except" swallows it
         /\ LET slept == speed >= 0 \/ (dj - 2) % 5 # 0
                 n == IF ok /\ slept THEN drawn + 1 ELSE drawn
             IN  /\ drawn' = n
                 /\ log' = IF n # drawn /\ n % outline_progress_every = 0
                           THEN Append(log, Logged("progress", n))
                           ELSE log
    /\ dj' = dj + 1
    /\ pc' = IF dj < Len(line_segments[si]) THEN "seg_drag" ELSE "seg_up"
    /\ UNCHANGED <<inputs, stop_drawing, hooks, cancel_at, dist_calls, pixvars,
                   outline_px, visited, line_segments, segment, all_paths,
                   current, ti, si, clivars, matchvars, guivars>>

\* pyautogui.mouseUp(), then time.sleep(self.speed), which raises
\* ValueError for a negative speed
SegUp ==
    /\ pc = "seg_up"
    /\ \E ok \in Outcomes :
         LET done == ok /\ speed >= 0
         IN  /\ trace' = Append(trace, Release(ok))
             /\ Spend(ok)
             /\ pc' = IF done THEN "seg_check" ELSE "error"
             /\ hooks' = IF done THEN hooks ELSE 0
             /\ si' = IF done THEN si + 1 ELSE si
    /\ UNCHANGED <<inputs, stop_drawing, cancel_at, dist_calls, pixvars,
                   outline_px, visited, line_segments, segment, all_paths,
                   current, ti, dj, clivars, matchvars, guivars, logvars>>

(***************************************************************************)
(* SimpleAutoDraw.draw_image.  Every exit passes the "finally" that        *)
(* removes the hook.                                                       *)
(***************************************************************************)
\* the loop that collects pixels_to_draw
CliPlan ==
    /\ pc = "plan"
    /\ executor = "cli"
    /\ to_draw' = pixels_to_draw(img, canvas_area, width, height)
    /\ cli_i' = 1
    /\ pc' = "cli_position"
    /\ UNCHANGED <<inputs, stop_drawing, hooks, trace, fail_budget, cancel_at,
                   dist_calls, pixvars, outvars, matchvars, guivars, logvars>>

\* pyautogui.moveTo(x1, y1)
CliInitialMove ==
    /\ pc = "cli_position"
    /\ \E ok \in Outcomes :
         /\ trace' = Append(trace, MoveTo(Corner, ok))
         /\ Spend(ok)
         /\ pc' = IF ok THEN "cli_check" ELSE "error"
         /\ hooks' = IF ok THEN hooks ELSE 0
    /\ UNCHANGED <<inputs, stop_drawing, cancel_at, dist_calls,
                   pixvars, outvars, clivars, matchvars, guivars, logvars>>

\* head of "for i, (pos_x, pos_y) in enumerate(pixels_to_draw)"
CliCheck ==
    /\ pc = "cli_check"
    /\ IF cli_i > Len(to_draw)
       THEN /\ pc' = "finished"
            /\ hooks' = 0
            /\ log' = Append(log, Logged("completed", drawn))
       ELSE IF stop_drawing
       THEN /\ pc' = "stopped"
            /\ hooks' = 0
            /\ log' = log
       ELSE /\ pc' = "cli_move"
            /\ hooks' = hooks
            /\ log' = log
    /\ UNCHANGED <<inputs, stop_drawing, trace, fail_budget, cancel_at,
                   dist_calls, pixvars, outvars, clivars, matchvars, guivars, drawn>>

\* pyautogui.moveTo(pos_x, pos_y, duration=0)
CliMove ==
    /\ pc = "cli_move"
    /\ \E ok \in Outcomes :
         /\ trace' = Append(trace, MoveTo(to_draw[cli_i], ok))
         /\ Spend(ok)
         /\ pc' = IF ok THEN "cli_click" ELSE "error"
         /\ hooks' = IF ok THEN hooks ELSE 0
    /\ UNCHANGED <<inputs, stop_drawing, cancel_at, dist_calls,
                   pixvars, outvars, clivars, matchvars, guivars, logvars>>

\* pyautogui.click()
CliClick ==
    /\ pc = "cli_click"
    /\ \E ok \in Outcomes :
         /\ trace' = Append(trace, Click(ok))
         /\ Spend(ok)
         /\ pc' = IF ok THEN "cli_check" ELSE "error"
         /\ hooks' = IF ok THEN hooks ELSE 0
         /\ cli_i' = IF ok THEN cli_i + 1 ELSE cli_i
         /\ drawn' = IF ok THEN drawn + 1 ELSE drawn
         /\ log' = IF ok /\ (   (cli_i - 1) % progress_every = 0
                             \/ cli_i = Len(to_draw))
                   THEN Append(log, Logged("progress", drawn + 1))
                   ELSE log
    /\ UNCHANGED <<inputs, stop_drawing, cancel_at, dist_calls,
                   pixvars, outvars, to_draw, matchvars, guivars>>

(***************************************************************************)
(* The drawing sessions: both executors, both styles, with cancellation    *)
(* and actuator failures.                                                  *)
(***************************************************************************)
Next ==
    \/ Start
    \/ Cancel
    \/ InitialMove
    \/ PlanPixels
    \/ ColorCheck
    \/ SelectColor
    \/ PixelCheck
    \/ PixelMove
    \/ PixelClick
    \/ ScanOutline
    \/ SelectBlack
    \/ TraceOuter
    \/ TraceExtend
    \/ SegCheck
    \/ SegMove
    \/ SegDown
    \/ SegDrag
    \/ SegUp
    \/ CliPlan
    \/ CliInitialMove
    \/ CliCheck
    \/ CliMove
    \/ CliClick

Spec == Init /\ [][Next]_vars

(***************************************************************************)
(* Palette matching on its own: one find_closest_color call on a palette   *)
(* and a query colour drawn from the colour universe.                      *)
(***************************************************************************)
\* a 1 x 1 white bitmap, for the sessions that draw nothing
BlankImage == [p \in PixelSet(1, 1) |-> Opaque(White)]

InitMatch ==
    /\ InitLocals
    /\ InitDirectCall
    /\ executor = "match"
    /\ style = "pixel"
    /\ width = 1
    /\ height = 1
    /\ img = BlankImage
    /\ has_alpha = FALSE
    /\ skip_white = TRUE
    /\ palette \in SeqsUpTo(MatchColors, MaxMatchLen)
    /\ color_positions = {}
    /\ canvas_area = Region(1, 1, <<1, 1>>)
    /\ query \in MatchColors
    /\ pc = "match"
    /\ fail_budget = 0

\* self.find_closest_color(query)
FindClosest ==
    /\ pc = "match"
    /\ closest' = find_closest_color(palette, query)
    /\ closest_idx' = ClosestIndex(palette, query)
    /\ dist_calls' = dist_calls + DistanceCalls(palette)
    /\ pc' = "matched"
    /\ UNCHANGED <<inputs, stop_drawing, hooks, trace, fail_budget, cancel_at,
                   pixvars, outvars, clivars, query, logvars, guivars>>

NextMatch == FindClosest

SpecMatch == InitMatch /\ [][NextMatch]_vars

(***************************************************************************)
(* Outline tracing and stroke execution without cancellation and without   *)
(* actuator failure, on every dark/light bitmap up to MaxTraceArea and on  *)
(* every bitmap whose dark pixels are one straight line.                   *)
(***************************************************************************)
LineDirs == {<<1, 0>>, <<0, 1>>, <<1, 1>>, <<-1, 1>>}

LinePixels(start, d, n) ==
    {<<start[1] + k * d[1], start[2] + k * d[2]>> : k \in 0..(n - 1)}

InitTraceCommon ==
    /\ InitLocals
    /\ InitDirectCall
    /\ executor = "gui"
    /\ style = "outline"
    /\ has_alpha = FALSE
    /\ skip_white = TRUE
    /\ palette = <<>>
    /\ color_positions = {Black}
    /\ query = NoColor
    /\ pc = "ready"
    /\ fail_budget = 0

InitAnyBitmap ==
    \E s \in Shapes(MaxTraceArea) :
        /\ width = s[1]
        /\ height = s[2]
        /\ img \in [PixelSet(s[1], s[2]) -> {Opaque(c) : c \in OutlineColors}]
        /\ canvas_area = Region(s[1], s[2], <<1, 1>>)

InitLineBitmap ==
    /\ width = LineMax
    /\ height = LineMax
    /\ canvas_area = Region(LineMax, LineMax, <<1, 1>>)
    /\ \E start \in PixelSet(LineMax, LineMax), d \in LineDirs, n \in 2..LineMax :
         /\ LinePixels(start, d, n) \subseteq PixelSet(LineMax, LineMax)
         /\ img = [p \in PixelSet(LineMax, LineMax) |->
                      IF p \in LinePixels(start, d, n)
                      THEN Opaque(Black) ELSE Opaque(White)]

InitTrace ==
    /\ InitTraceCommon
    /\ \/ InitAnyBitmap
       \/ InitLineBitmap

NextTrace ==
    \/ Start
    \/ InitialMove
    \/ ScanOutline
    \/ SelectBlack
    \/ TraceOuter
    \/ TraceExtend
    \/ SegCheck
    \/ SegMove
    \/ SegDown
    \/ SegDrag
    \/ SegUp

SpecTrace == InitTrace /\ [][NextTrace]_vars

(***************************************************************************)
(* process_image of both executors: resize when resolution is not 1.0,     *)
(* then mark the background.  A resize to a zero width or height raises    *)
(* inside process_image, which returns False; the callers tell the user    *)
(* and return.  The LANCZOS resampling is not computed: a resize yields    *)
(* any bitmap of the new size over ResampleColors.  The edge filter of     *)
(* the outline style likewise yields any black and white RGB bitmap.       *)
(***************************************************************************)
\* int(width * self.resolution)
Scaled(n) == (n * resolution) \div 100

\* greys on both sides of the two thresholds, and a colour with one low
\* channel
ThresholdColors ==
    {<<239, 239, 239>>, <<240, 240, 240>>, <<244, 244, 244>>,
     <<245, 245, 245>>, <<246, 246, 246>>, <<250, 250, 100>>}
ResampleColors == {<<244, 244, 244>>, <<245, 245, 245>>, White}

\* img.resize((new_width, new_height), Image.LANCZOS), or img unchanged
Resized(src) ==
    IF resolution = default_resolution THEN {src}
    ELSE [PixelSet(Scaled(width), Scaled(height)) ->
             {Opaque(c) : c \in ResampleColors}]

ResizeRaises ==
    /\ resolution # default_resolution
    /\ (Scaled(width) = 0 \/ Scaled(height) = 0)

\* the images process_image can store in self.processed_image
Processed(resized) ==
    IF executor = "cli" THEN {cli_process_image(resized, skip_white)}
    ELSE IF style = "pixel" THEN {process_image(resized, skip_white)}
    ELSE [DOMAIN resized -> {Opaque(c) : c \in OutlineColors}]

\* a process_image that marks the background before it resizes
ProcessImageMarkFirst ==
    /\ pc = "process"
    /\ IF ResizeRaises
       THEN /\ pc' = "exit"
            /\ report' = IF driver = "none" THEN report ELSE "process failed"
            /\ UNCHANGED <<img, width, height, has_alpha>>
       ELSE /\ \E marked \in Processed(image) :
                 \E out \in Resized(marked) : img' = out
            /\ width' = IF resolution = default_resolution
                        THEN width ELSE Scaled(width)
            /\ height' = IF resolution = default_resolution
                         THEN height ELSE Scaled(height)
            /\ has_alpha' = IF executor = "cli" THEN TRUE
                            ELSE style = "pixel" /\ skip_white
            /\ pc' = IF driver = "none" THEN "ready" ELSE "confirm"
            /\ report' = report
    /\ UNCHANGED <<executor, style, skip_white, palette, color_positions,
                   canvas_area, driver, image, speed, resolution, screen, pickable,
                   stop_drawing, hooks, trace, fail_budget, cancel_at,
                   dist_calls, pixvars, outvars, clivars, matchvars, guivars, logvars>>

\* process_image of both executors
ProcessImage ==
    /\ pc = "process"
    /\ IF ResizeRaises
       THEN /\ pc' = "exit"
            /\ report' = IF driver = "none" THEN report ELSE "process failed"
            /\ UNCHANGED <<img, width, height, has_alpha>>
       ELSE /\ \E resized \in Resized(image) :
                 \E out \in Processed(resized) : img' = out
            /\ width' = IF resolution = default_resolution
                        THEN width ELSE Scaled(width)
            /\ height' = IF resolution = default_resolution
                         THEN height ELSE Scaled(height)
            /\ has_alpha' = IF executor = "cli" THEN TRUE
                            ELSE style = "pixel" /\ skip_white
            /\ pc' = IF driver = "none" THEN "ready" ELSE "confirm"
            /\ report' = report
    /\ UNCHANGED <<executor, style, skip_white, palette, color_positions,
                   canvas_area, driver, image, speed, resolution, screen, pickable,
                   stop_drawing, hooks, trace, fail_budget, cancel_at,
                   dist_calls, pixvars, outvars, clivars, matchvars, guivars, logvars>>

\* largest source bitmap (width * height) of the background-marking
\* specification
MaxMarkArea == 4

InitMark ==
    /\ screen = FullHD
    /\ InitLocals
    /\ driver = "none"
    /\ report = "none"
    /\ speed = default_speed
    /\ pickable = MatchColors
    /\ executor \in {"gui", "cli"}
    /\ style = "pixel"
    /\ skip_white \in BOOLEAN
    /\ resolution \in {default_resolution, 50}
    /\ \E s \in Shapes(MaxMarkArea) :
         /\ width = s[1]
         /\ height = s[2]
         /\ image \in [PixelSet(s[1], s[2]) -> {Opaque(c) : c \in ThresholdColors}]
    /\ img = NoImage
    /\ has_alpha = FALSE
    /\ palette = <<>>
    /\ color_positions = {}
    /\ canvas_area = Region(1, 1, <<1, 1>>)
    /\ query = NoColor
    /\ pc = "process"
    /\ fail_budget = 0

NextMark == ProcessImage

SpecMark == InitMark /\ [][NextMark]_vars

(***************************************************************************)
(* Properties of palette matching.                                         *)
(***************************************************************************)
\* C8: find_closest_color returns a palette entry whose distance to the
\* query is minimal over the palette, and among the entries at minimal
\* distance the one that occurs first in palette order.
ClosestIsFirstMinimum ==
    (pc = "matched" /\ palette # <<>>) =>
        /\ closest_idx \in 1..Len(palette)
        /\ closest = palette[closest_idx]
        /\ \A j \in 1..Len(palette) :
             Distance(palette, query, closest_idx) <= Distance(palette, query, j)
        /\ \A j \in 1..(closest_idx - 1) :
             Distance(palette, query, j) > Distance(palette, query, closest_idx)

\* a call whose minimal distance is shared by two palette entries, with a
\* farther entry in front of them
ClosestTieReached ==
    /\ pc = "matched"
    /\ Len(palette) = 3
    /\ closest_idx = 2
    /\ Distance(palette, query, 3) = Distance(palette, query, 2)
    /\ Distance(palette, query, 1) > Distance(palette, query, 2)

\* C9: for every palette that contains the query colour, wherever it sits
\* and whatever the other entries are, find_closest_color returns the
\* query colour.
ExactMatchWins ==
    (pc = "matched" /\ SeqContains(palette, query)) => closest = query

\* the query is the last of three entries, behind two other colours
ExactMatchBehindOthers ==
    /\ pc = "matched"
    /\ Len(palette) = 3
    /\ palette[3] = query
    /\ palette[1] # query
    /\ palette[2] # query
    /\ closest = query

(***************************************************************************)
(* Properties of the drawing sessions.                                     *)
(***************************************************************************)
GuiPixel == executor = "gui" /\ style = "pixel"
GuiOutline == executor = "gui" /\ style = "outline"

Indices == 1..Len(trace)
OpAt(i) == trace[i].op
AllOk == \A i \in Indices : trace[i].ok

\* the pixels the planner must draw: not transparent, not background
VisiblePixels ==
    {p \in PixelSet(width, height) :
        img[p].a # 0 /\ ~AllAtLeast(img[p].rgb, white_threshold)}

Centre(p) == PixelCentre(canvas_area, width, height, p)

\* find_closest_color on every session palette and colour, evaluated once
ClosestOf ==
    [arg \in SessionPalettes \X MatchColors |-> find_closest_color(arg[1], arg[2])]

\* the palette colour pixel p maps to
Target(p) == ClosestOf[<<palette, img[p].rgb>>]

\* the palette colours at least one visible pixel maps to
UsedColors == {Target(p) : p \in VisiblePixels}

\* the grouping loop of the pixel style has run
PixelsPlanned == pc \notin {"ready", "position", "plan"} /\ trace[1].ok

\* C10: with an empty palette no distance is computed, the session is not
\* rejected and a session that drew a colour fails only on a failed
\* actuator call, and pixel-style drawing groups and selects every visible
\* pixel under its own colour.
EmptyPaletteIdentity ==
    (GuiPixel /\ palette = <<>>) =>
        /\ dist_calls = 0
        /\ pc # "rejected"
        /\ (pc = "error" /\ colors # <<>> => ~AllOk)
        /\ (PixelsPlanned =>
              /\ Range(by_color.keys) = {img[p].rgb : p \in VisiblePixels}
              /\ \A p \in VisiblePixels :
                   SeqContains(by_color.pts[img[p].rgb], Centre(p)))
        /\ \A i \in Indices :
             OpAt(i) = "SelectColor" =>
                 trace[i].color \in {img[p].rgb : p \in VisiblePixels}

\* an empty-palette session that drew pixels of two colours to the end
EmptyPaletteFinished ==
    /\ GuiPixel
    /\ palette = <<>>
    /\ pc = "finished"
    /\ Len(colors) = 2
    /\ Cardinality(VisiblePixels) >= 3

\* C1: once ESC has set the flag after K completed actions, the executor
\* halts with at most K + 1 completed actions; stated for the flag being
\* set in the middle of an outline segment, after its PressDown or after
\* one of its DragTo.
CancelHaltsWithinOneAction ==
    (/\ GuiOutline
     /\ pc \in Terminal
     /\ AllOk
     /\ cancel_at >= 1
     /\ OpAt(cancel_at) \in {"PressDown", "DragTo"})
        => Completed <= cancel_at + 1

\* C3: a failed pointer-actuator call is the last call of the session and
\* puts the executor into Error.
ActuatorFailureAborts ==
    \A i \in Indices :
        ~trace[i].ok => (i = Len(trace) /\ pc = "error")

\* the trace indices that hold the MoveTo+Click pair of point pt
PairsAt(pt) ==
    {i \in 2..(Len(trace) - 1) :
        trace[i] = MoveTo(pt, TRUE) /\ trace[i + 1] = Click(TRUE)}

OpCount(op) == Cardinality({i \in 2..Len(trace) : OpAt(i) = op})

\* C2: a pixel-style session that ran to its end has issued, after the
\* positioning move, exactly one MoveTo+Click pair for every visible
\* non-background pixel and exactly one SelectColor for every palette
\* colour a visible pixel maps to, and nothing else.
PixelActionCount ==
    (GuiPixel /\ pc = "finished") =>
        /\ \A p \in VisiblePixels : Cardinality(PairsAt(Centre(p))) = 1
        /\ OpCount("MoveTo") = Cardinality(VisiblePixels)
        /\ OpCount("Click") = Cardinality(VisiblePixels)
        /\ \A c \in UsedColors :
             Cardinality({i \in Indices : trace[i] = SelectColorAct(c, TRUE)}) = 1
        /\ OpCount("SelectColor") = Cardinality(UsedColors)
        /\ Len(trace) = 1 + 2 * Cardinality(VisiblePixels) + Cardinality(UsedColors)

\* a finished session with a skipped white pixel, two colours, and a cell
\* of three points for the nearest-neighbour ordering to sort
PixelCountCase ==
    /\ GuiPixel
    /\ pc = "finished"
    /\ Cardinality(VisiblePixels) = 3
    /\ Cardinality(PixelSet(width, height)) = 4
    /\ Cardinality(UsedColors) = 1
    /\ Len(palette) = 2
    /\ \E n \in 1..Len(cells) : Len(cells[n]) = 3

\* colour of the latest SelectColor before trace index i
RECURSIVE SelectedBefore(_)
SelectedBefore(i) ==
    IF i <= 1 THEN NoColor
    ELSE IF OpAt(i - 1) = "SelectColor" THEN trace[i - 1].color
    ELSE SelectedBefore(i - 1)

\* C4: after the positioning move the pixel-style stream is
\* SelectColor(c1), (MoveTo, Click)*, SelectColor(c2), ...: every Click
\* directly follows the MoveTo of its point, every MoveTo goes to the
\* centre of a visible pixel whose closest palette colour is the colour
\* selected last, and no colour is selected without a MoveTo after it.
\* Stated of the whole stream of a session that has ended, whether it
\* finished, was cancelled or failed.
PixelStreamShape ==
    (GuiPixel /\ pc \in Terminal) =>
        \A i \in Indices :
            /\ OpAt(i) \in {"MoveTo", "Click", "SelectColor"}
            /\ (i = 1 => trace[i] \in {MoveTo(Corner, TRUE), MoveTo(Corner, FALSE)})
            /\ (i = 2 => OpAt(i) = "SelectColor")
            /\ (OpAt(i) = "Click" =>
                  i > 2 /\ OpAt(i - 1) = "MoveTo" /\ trace[i - 1].ok)
            /\ (OpAt(i) = "MoveTo" /\ i > 1 =>
                  /\ OpAt(i - 1) \in {"SelectColor", "Click"}
                  /\ (i < Len(trace) => OpAt(i + 1) = "Click")
                  /\ \E p \in VisiblePixels :
                       /\ Centre(p) = <<trace[i].x, trace[i].y>>
                       /\ Target(p) = SelectedBefore(i))
            /\ (OpAt(i) = "SelectColor" =>
                  /\ (i > 2 => OpAt(i - 1) = "Click")
                  /\ (i < Len(trace) => OpAt(i + 1) = "MoveTo"))

\* a finished stream with two colour groups, one of them with two pairs
PixelStreamCase ==
    /\ GuiPixel
    /\ pc = "finished"
    /\ OpCount("SelectColor") = 2
    /\ OpCount("Click") = 3
    /\ AllOk

(***************************************************************************)
(* Properties of the outline style.                                        *)
(***************************************************************************)
\* the actions of one segment: MoveTo(first), PressDown, DragTo.., Release
StrokeOf(seg) ==
    <<MoveTo(OutlinePos(seg[1]), TRUE), PressDown(TRUE)>>
    \o [k \in 1..(Len(seg) - 1) |-> DragTo(OutlinePos(seg[k + 1]), TRUE)]
    \o <<Release(TRUE)>>

RECURSIVE StrokesOf(_, _)
StrokesOf(segs, k) ==
    IF k > Len(segs) THEN <<>> ELSE StrokeOf(segs[k]) \o StrokesOf(segs, k + 1)

\* C5: in outline style, after the positioning move, SelectColor(black) is
\* issued once, before every segment; every segment is MoveTo(first
\* point), PressDown, one DragTo per further point in segment order,
\* Release; PressDown and Release alternate and no DragTo is outside a
\* PressDown..Release bracket.
OutlineStreamShape ==
    GuiOutline =>
        /\ \A i \in Indices :
             /\ OpAt(i) \in {"MoveTo", "SelectColor", "PressDown", "DragTo", "Release"}
             /\ (OpAt(i) = "SelectColor" <=> i = 2)
             /\ (i = 2 => trace[i].color = find_closest_color(palette, Black))
             /\ (OpAt(i) = "MoveTo" /\ i > 1 =>
                   /\ OpAt(i - 1) \in {"SelectColor", "Release"}
                   /\ trace[i - 1].ok
                   /\ (i < Len(trace) => OpAt(i + 1) = "PressDown"))
             /\ (OpAt(i) = "PressDown" =>
                   /\ OpAt(i - 1) = "MoveTo"
                   /\ i > 2
                   /\ (i < Len(trace) => OpAt(i + 1) = "DragTo"))
             /\ (OpAt(i) = "DragTo" =>
                   /\ OpAt(i - 1) \in {"PressDown", "DragTo"}
                   /\ (OpAt(i - 1) = "PressDown" => trace[i - 1].ok)
                   /\ (i < Len(trace) => OpAt(i + 1) \in {"DragTo", "Release"}))
             /\ (OpAt(i) = "Release" => OpAt(i - 1) = "DragTo")
        /\ (pc \in {"finished", "stopped"} /\ AllOk /\ Len(trace) >= 2 =>
              \E n \in 0..Len(line_segments) :
                  /\ SubSeq(trace, 3, Len(trace))
                       = StrokesOf(SubSeq(line_segments, 1, n), 1)
                  /\ (pc = "finished" => n = Len(line_segments)))

\* a finished outline session with two strokes, one of three points
OutlineStreamCase ==
    /\ GuiOutline
    /\ pc = "finished"
    /\ AllOk
    /\ Len(line_segments) = 2
    /\ \E n \in 1..2 : Len(line_segments[n]) = 3

\* every path traced so far, the open one included
TracedPaths == all_paths \o (IF pc = "extend" THEN <<segment>> ELSE <<>>)

RECURSIVE Flatten(_, _)
Flatten(paths, k) ==
    IF k > Len(paths) THEN <<>> ELSE paths[k] \o Flatten(paths, k + 1)

NoRepeat(s) == \A i, j \in 1..Len(s) : s[i] = s[j] => i = j

Adjacent8(p, q) ==
    /\ p # q
    /\ Abs(p[1] - q[1]) <= 1
    /\ Abs(p[2] - q[2]) <= 1

DarkSet == {p \in PixelSet(width, height) : IsDark(img[p])}

LongPath(s) == Len(s) > 1

TracingDone ==
    pc \in {"seg_check", "seg_move", "seg_down", "seg_drag", "seg_up",
            "finished"}

\* C6: without cancellation the traced paths partition the dark pixels (no
\* pixel is in two paths or twice in one, and after tracing every dark
\* pixel is in a path), consecutive points of a path are 8-neighbours,
\* and exactly the paths of length 1 are discarded: they are no segment
\* and no pointer action goes to them.
TracingPartition ==
    GuiOutline =>
        /\ NoRepeat(Flatten(TracedPaths, 1))
        /\ \A n \in 1..Len(TracedPaths) :
             /\ Len(TracedPaths[n]) >= 1
             /\ \A k \in 1..(Len(TracedPaths[n]) - 1) :
                  Adjacent8(TracedPaths[n][k], TracedPaths[n][k + 1])
        /\ line_segments = SelectSeq(all_paths, LongPath)
        /\ (TracingDone => Range(Flatten(all_paths, 1)) = DarkSet)
        /\ \A i \in 3..Len(trace) :
             OpAt(i) \in {"MoveTo", "DragTo"} =>
                 \E n \in 1..Len(line_segments) :
                     \E k \in 1..Len(line_segments[n]) :
                         OutlinePos(line_segments[n][k]) = <<trace[i].x, trace[i].y>>

\* a finished tracing with two strokes and a discarded path of length 1
TracingCase ==
    /\ GuiOutline
    /\ pc = "finished"
    /\ Len(line_segments) = 2
    /\ Len(all_paths) = 3
    /\ \E n \in 1..3 : Len(all_paths[n]) >= 3

\* C6, the reading "paths of length 1 are isolated pixels": a discarded
\* path's pixel has no dark 8-neighbour, so that every dark pixel is in a
\* segment or isolated.
DiscardedAreIsolated ==
    (GuiOutline /\ TracingDone) =>
        \A n \in 1..Len(all_paths) :
            Len(all_paths[n]) = 1 =>
                \A q \in DarkSet : ~Adjacent8(all_paths[n][1], q)

IsStraightLine(S) ==
    /\ Cardinality(S) >= 2
    /\ \E start \in S, d \in LineDirs : S = LinePixels(start, d, Cardinality(S))

\* C7: when the dark pixels are one straight line of n >= 2 pixels
\* (horizontal, vertical or diagonal), tracing yields exactly one segment
\* with all n pixels, and its execution is MoveTo, PressDown, n - 1
\* DragTo, Release: PressDown before every DragTo, Release last.
StraightLineOneSegment ==
    (GuiOutline /\ IsStraightLine(DarkSet) /\ TracingDone) =>
        /\ Len(line_segments) = 1
        /\ Len(line_segments[1]) = Cardinality(DarkSet)
        /\ Range(line_segments[1]) = DarkSet
        /\ (pc = "finished" =>
              /\ Len(trace) = 4 + Cardinality(DarkSet)
              /\ OpAt(3) = "MoveTo"
              /\ OpAt(4) = "PressDown"
              /\ \A i \in 5..(Len(trace) - 1) : OpAt(i) = "DragTo"
              /\ OpAt(Len(trace)) = "Release")

\* a drawn anti-diagonal of LineMax pixels, traced from its upper right end
StraightLineCase ==
    /\ GuiOutline
    /\ pc = "finished"
    /\ width = LineMax
    /\ DarkSet = LinePixels(<<LineMax - 1, 0>>, <<-1, 1>>, LineMax)
    /\ Len(line_segments) = 1

(***************************************************************************)
(* The callers of draw_image: AutoDrawGUI.start_drawing and run_cli_mode   *)
(* of auto_draw.py, main of auto_draw_cli.py.  Each loads the image,       *)
(* processes it, asks for a confirmation, calls draw_image and tells the   *)
(* user the outcome; each returns at the first step that fails.            *)
(***************************************************************************)
Drivers == {"start_drawing", "run_cli_mode", "main"}

\* largest bitmap (width * height) of a session started by a caller
MaxSessArea == 2

\* the bitmaps load_image can store in self.image: RGB for AutoDraw, RGBA
\* for SimpleAutoDraw
Loadable(w, h) ==
    [PixelSet(w, h) ->
        IF executor = "cli" THEN CliPixels
        ELSE IF style = "pixel" THEN {Opaque(c) : c \in GuiColors}
        ELSE {Opaque(c) : c \in OutlineColors}]

\* load_image: Image.open raises for a missing or undecodable file and
\* load_image returns False, else self.image is set; canvas_area is the
\* region the user selected for the image
LoadImage ==
    /\ pc = "load"
    /\ \/ /\ report' = "load failed"
          /\ pc' = "exit"
          /\ UNCHANGED <<image, width, height, canvas_area>>
       \/ /\ \E s \in Shapes(MaxSessArea) :
               /\ width' = s[1]
               /\ height' = s[2]
               /\ image' \in Loadable(s[1], s[2])
               /\ canvas_area' = Region(s[1], s[2], <<1, 1>>)
          /\ pc' = "process"
          /\ report' = report
    /\ UNCHANGED <<executor, style, img, has_alpha, skip_white, palette,
                   color_positions, driver, speed, resolution, screen, pickable,
                   stop_drawing, hooks, trace, fail_budget, cancel_at,
                   dist_calls, pixvars, outvars, clivars, matchvars, guivars, logvars>>

\* messagebox.askokcancel of start_drawing, input() of run_cli_mode (left
\* by Ctrl+C) and of main (anything but "y" declines)
Confirm ==
    /\ pc = "confirm"
    /\ \E yes \in BOOLEAN :
         /\ pc' = IF yes THEN "ready" ELSE "exit"
         /\ report' = IF yes THEN report ELSE "declined"
    /\ UNCHANGED <<executor, style, width, height, img, has_alpha, skip_white,
                   palette, color_positions, canvas_area, driver, image,
                   speed, resolution, screen, pickable, stop_drawing, hooks, trace,
                   fail_budget, cancel_at, dist_calls, pixvars, outvars,
                   clivars, matchvars, guivars, logvars>>

\* draw_image without a processed image: "return False" before the flag is
\* reset and before the hook is installed
DrawWithoutImage ==
    /\ pc = "ready"
    /\ executor \in {"gui", "cli"}
    /\ img = NoImage
    /\ pc' = "rejected"
    /\ UNCHANGED <<inputs, stop_drawing, hooks, trace, fail_budget, cancel_at,
                   dist_calls, pixvars, outvars, clivars, matchvars, guivars, logvars>>

\* a caller that looks at the returned value only
OutcomeOfValue(v, flag) == IF v THEN "completed" ELSE "failed"

\* what the caller says after draw_image returned v, reading the flag
Outcome(v, flag) ==
    IF v THEN (IF flag THEN "stopped by user" ELSE "completed")
    ELSE "failed"

\* "if draw_image(): if stop_drawing: ... else: ... else: ..." of the callers
Report ==
    /\ pc \in {"finished", "stopped", "error", "rejected"}
    /\ driver \in Drivers
    /\ report = "none"
    /\ report' = Outcome(pc \in {"finished", "stopped"}, stop_drawing)
    /\ UNCHANGED <<executor, style, width, height, img, has_alpha, skip_white,
                   palette, color_positions, canvas_area, driver, image,
                   speed, resolution, screen, pickable, stop_drawing, hooks, pc,
                   trace, fail_budget, cancel_at, dist_calls, pixvars,
                   outvars, clivars, matchvars, guivars, logvars>>

Speeds == {-1000, 0, 150, 5000}

\* style, palette, known positions and pickable colours of a session
InitSettings ==
    \/ /\ executor = "gui"
       /\ style = "pixel"
       /\ palette \in {<<Red, Black>>, <<Black>>}
       /\ color_positions = {}
       /\ pickable \in {MatchColors, {Black}, {}}
    \/ /\ executor = "gui"
       /\ style = "outline"
       /\ palette \in {<<Red, Black>>, <<Red>>}
       /\ color_positions \in {{}, {Black}}
       /\ pickable = MatchColors
    \/ /\ executor = "cli"
       /\ style = "pixel"
       /\ palette = <<>>
       /\ color_positions = {}
       /\ pickable = MatchColors

\* a caller is about to load the image, or draw_image is called directly
\* on an object without a processed image; run_cli_mode and main work on a
\* new object, start_drawing and a direct call on one whose flag an earlier
\* cancelled session may have left set
InitSession ==
    /\ screen = FullHD
    /\ InitScratch
    /\ driver \in Drivers \cup {"none"}
    /\ stop_drawing \in
           IF driver \in {"start_drawing", "none"} THEN BOOLEAN ELSE {FALSE}
    /\ InitSettings
    /\ driver = "main" <=> executor = "cli" /\ driver # "none"
    /\ skip_white = TRUE
    /\ speed \in Speeds
    /\ resolution \in {default_resolution, 50}
    /\ report = "none"
    /\ image = NoImage
    /\ img = NoImage
    /\ has_alpha = FALSE
    /\ width = 0
    /\ height = 0
    /\ canvas_area = <<0, 0, 0, 0>>
    /\ query = NoColor
    /\ fail_budget = 0
    /\ pc = IF driver = "none" THEN "ready" ELSE "load"

NextSession ==
    \/ LoadImage
    \/ ProcessImage
    \/ Confirm
    \/ DrawWithoutImage
    \/ Report
    \/ PaletteSearch
    \/ Next

SpecSession == InitSession /\ [][NextSession]_vars

(***************************************************************************)
(* The same sessions with progress.  draw_image and its callers run        *)
(* sequentially in one thread: a statement that can run does run, a sleep  *)
(* ends, and a dialog or prompt is answered at some time.  Nothing         *)
(* obliges the user to press ESC, so the ESC callback gets no fairness.    *)
(***************************************************************************)
ProgramStep ==
    \/ LoadImage
    \/ ProcessImage
    \/ Confirm
    \/ DrawWithoutImage
    \/ Report
    \/ PaletteSearch
    \/ Start
    \/ InitialMove
    \/ PlanPixels
    \/ ColorCheck
    \/ SelectColor
    \/ PixelCheck
    \/ PixelMove
    \/ PixelClick
    \/ ScanOutline
    \/ SelectBlack
    \/ TraceOuter
    \/ TraceExtend
    \/ SegCheck
    \/ SegMove
    \/ SegDown
    \/ SegDrag
    \/ SegUp
    \/ CliPlan
    \/ CliInitialMove
    \/ CliCheck
    \/ CliMove
    \/ CliClick

\* The sessions followed to their end: main of auto_draw_cli.py from the
\* loading of the image on, and direct calls of AutoDraw.draw_image with an
\* empty palette (find_closest_color then returns the colour itself), with
\* and without a processed image, at a negative and at a zero speed.
InitFairCall ==
    /\ driver = "none"
    /\ pc = "ready"
    /\ image = NoImage
    /\ \/ /\ executor \in {"gui", "cli"}
          /\ style = "pixel"
          /\ img = NoImage
          /\ has_alpha = FALSE
          /\ width = 0
          /\ height = 0
          /\ canvas_area = <<0, 0, 0, 0>>
          /\ color_positions = {}
          /\ pickable = MatchColors
       \/ /\ executor = "gui"
          /\ \E s \in Shapes(MaxSessArea) :
               /\ width = s[1]
               /\ height = s[2]
               /\ canvas_area = Region(s[1], s[2], <<1, 1>>)
               /\ \/ /\ style = "pixel"
                     /\ has_alpha = TRUE
                     /\ \E src \in [PixelSet(s[1], s[2]) ->
                                      {Opaque(c) : c \in GuiColors}] :
                          img = process_image(src, TRUE)
                     /\ color_positions = {}
                     /\ pickable \in {MatchColors, {}}
                  \/ /\ style = "outline"
                     /\ has_alpha = FALSE
                     /\ img \in [PixelSet(s[1], s[2]) ->
                                   {Opaque(c) : c \in OutlineColors}]
                     /\ color_positions \in {{}, {Black}}
                     /\ pickable = MatchColors

InitFairMain ==
    /\ driver = "main"
    /\ pc = "load"
    /\ executor = "cli"
    /\ style = "pixel"
    /\ image = NoImage
    /\ img = NoImage
    /\ has_alpha = FALSE
    /\ width = 0
    /\ height = 0
    /\ canvas_area = <<0, 0, 0, 0>>
    /\ color_positions = {}
    /\ pickable = MatchColors

InitFair ==
    /\ screen = FullHD
    /\ InitScratch
    /\ stop_drawing = FALSE
    /\ report = "none"
    /\ palette = <<>>
    /\ skip_white = TRUE
    /\ speed \in {-1000, 0}
    /\ resolution \in {default_resolution, 50}
    /\ query = NoColor
    /\ fail_budget \in {0, MaxFailures}
    /\ (InitFairCall \/ InitFairMain)

SpecSessionFair ==
    InitFair /\ [][NextSession]_vars /\ WF_vars(ProgramStep)

(***************************************************************************)
(* The drawing region.  AutoDrawGUI.select_canvas_area stores what          *)
(* DrawingAreaSelector.select_drawing_area returns for the two clicks of   *)
(* the user (nothing when the user cancels); reset_canvas_area stores      *)
(* None.  draw_image substitutes the centred region for a missing one.     *)
(***************************************************************************)
\* "if x1 > x2: x1, x2 = x2, x1" and "if y1 > y2: y1, y2 = y2, y1"
select_drawing_area(c1, c2) ==
    LET x1 == IF c1[1] > c2[1] THEN c2[1] ELSE c1[1]
        x2 == IF c1[1] > c2[1] THEN c1[1] ELSE c2[1]
        y1 == IF c1[2] > c2[2] THEN c2[2] ELSE c1[2]
        y2 == IF c1[2] > c2[2] THEN c1[2] ELSE c2[2]
    IN  <<x1, y1, x2, y2>>

\* select_canvas_area: the selection is cancelled, or set_canvas_area stores
\* the region selected with two clicks.  The distances of the clicked
\* positions are multiples of every bitmap dimension in use, which keeps
\* pixel_width and pixel_height whole.
SelectCanvasArea ==
    /\ pc = "area"
    /\ \/ canvas_area' = canvas_area
       \/ \E c1, c2 \in {100, 106, 112} \X {50, 56} :
            canvas_area' = select_drawing_area(c1, c2)
    /\ pc' = "ready"
    /\ UNCHANGED <<executor, style, width, height, img, has_alpha, skip_white,
                   palette, color_positions, session, stop_drawing, hooks,
                   trace, fail_budget, cancel_at, dist_calls, pixvars,
                   outvars, clivars, matchvars, guivars, logvars>>

\* largest bitmap (width * height) of the sessions that select a region
MaxRegionArea == 2

\* a processed all-black bitmap, no region set, the user about to select one;
\* pyautogui.size() is wider than the bitmap with an even or an odd margin,
\* or smaller than the bitmap
InitRegion ==
    /\ InitLocals
    /\ driver = "none"
    /\ image = NoImage
    /\ report = "none"
    /\ speed = default_speed
    /\ resolution = default_resolution
    /\ pickable = MatchColors
    /\ screen \in {<<8, 6>>, <<7, 5>>, <<1, 1>>}
    /\ \/ executor = "gui" /\ style \in {"pixel", "outline"} /\ has_alpha = FALSE
       \/ executor = "cli" /\ style = "pixel" /\ has_alpha = TRUE
    /\ \E s \in Shapes(MaxRegionArea) :
         /\ width = s[1]
         /\ height = s[2]
         /\ img = [p \in PixelSet(s[1], s[2]) |-> Opaque(Black)]
    /\ skip_white = FALSE
    /\ palette = <<>>
    /\ color_positions = {Black}
    /\ canvas_area = NoRegion
    /\ query = NoColor
    /\ fail_budget = 0
    /\ pc = "area"

NextRegion ==
    \/ SelectCanvasArea
    \/ Next

SpecRegion == InitRegion /\ [][NextRegion]_vars

(***************************************************************************)
(* Long pixel sessions: one row at scale 1, black but for a few leading   *)
(* red pixels, long enough for the periodic progress line.  A session      *)
(* starts where its planning has ended: the GUI executor after             *)
(* set_target_color for black, the darker colour, the CLI executor after   *)
(* its positioning move.                                                   *)
(***************************************************************************)
\* width of the one-row bitmap
MaxProgressWidth == 510

\* grid_cells of the pixels first..w-1 of the row: cell x // GRID_SIZE holds
\* its pixels from left to right, which is also their nearest-neighbour
\* order
RowCells(area, w, first) ==
    LET k0 == first \div GRID_SIZE
        k1 == (w - 1) \div GRID_SIZE
    IN  [n \in 1..(k1 - k0 + 1) |->
            LET lo == Max(first, (k0 + n - 1) * GRID_SIZE)
                hi == (k0 + n) * GRID_SIZE - 1
                to == IF hi < w THEN hi ELSE w - 1
            IN  [j \in 1..(to - lo + 1) |->
                    PixelCentre(area, w, 1, <<lo + j - 1, 0>>)]]

\* pixels_by_color of the row, the first reds pixels red
RowGroups(area, w, reds) ==
    LET at(lo, hi) == [j \in 1..(hi - lo + 1) |->
                          PixelCentre(area, w, 1, <<lo + j - 1, 0>>)]
    IN  IF reds = 0
        THEN [keys |-> <<Black>>,
              pts  |-> [c \in {Black} |-> at(0, w - 1)]]
        ELSE [keys |-> <<Red, Black>>,
              pts  |-> [c \in {Red, Black} |->
                           IF c = Red THEN at(0, reds - 1)
                                      ELSE at(reds, w - 1)]]

InitProgress ==
    /\ driver = "none"
    /\ image = NoImage
    /\ report = "none"
    /\ speed = default_speed
    /\ resolution = default_resolution
    /\ pickable = MatchColors
    /\ screen = FullHD
    /\ style = "pixel"
    /\ width = MaxProgressWidth
    /\ height = 1
    /\ canvas_area = <<Origin[1], Origin[2], Origin[1] + width, Origin[2] + 1>>
    /\ skip_white = FALSE
    /\ palette = <<>>
    /\ color_positions = {Black, Red}
    /\ stop_drawing = FALSE
    /\ hooks = 1
    /\ fail_budget = 0
    /\ cancel_at = -1
    /\ dist_calls = 0
    /\ outline_px = <<>>
    /\ visited = {}
    /\ line_segments = <<>>
    /\ segment = <<>>
    /\ all_paths = <<>>
    /\ current = <<0, 0>>
    /\ ti = 1
    /\ si = 1
    /\ dj = 2
    /\ query = NoColor
    /\ closest = NoColor
    /\ closest_idx = 0
    /\ ci = 1
    /\ cell_i = 1
    /\ pix_i = 1
    /\ depth = 0
    /\ cli_i = 1
    /\ drawn = 0
    /\ log = <<>>
    /\ recent_files = <<>>
    /\ file_path = [path |-> NoFile, exists |-> FALSE]
    /\ previewed = NoFile
    /\ \E reds \in {0, 5} :
         /\ img = [p \in PixelSet(width, 1) |->
                      Opaque(IF p[1] < reds THEN Red ELSE Black)]
         /\ \/ /\ executor = "gui"
               /\ has_alpha = FALSE
               /\ by_color = RowGroups(canvas_area, width, reds)
               /\ colors = IF reds = 0 THEN <<Black>> ELSE <<Black, Red>>
               /\ cells = RowCells(canvas_area, width, reds)
               /\ to_draw = <<>>
               /\ trace = <<MoveTo(Corner, TRUE), SelectColorAct(Black, TRUE)>>
               /\ pc = "pixel_check"
            \/ /\ executor = "cli"
               /\ has_alpha = TRUE
               /\ by_color = EmptyGroups
               /\ colors = <<>>
               /\ cells = <<>>
               /\ to_draw = RowGroups(canvas_area, width, 0).pts[Black]
               /\ trace = <<MoveTo(Corner, TRUE)>>
               /\ pc = "cli_check"

NextProgress ==
    \/ Cancel
    \/ ColorCheck
    \/ SelectColor
    \/ PixelCheck
    \/ PixelMove
    \/ PixelClick
    \/ CliCheck
    \/ CliMove
    \/ CliClick

SpecProgress == InitProgress /\ [][NextProgress]_vars

(***************************************************************************)
(* Preprocessing followed by drawing: process_image on a loaded black and  *)
(* white image, then draw_image on what it stored, in the default region.  *)
(***************************************************************************)
\* largest source bitmap (width * height) of these sessions
MaxPrepArea == 4

InitPrep ==
    /\ InitLocals
    /\ screen = FullHD
    /\ driver = "none"
    /\ report = "none"
    /\ speed = default_speed
    /\ pickable = MatchColors
    /\ \/ executor = "gui" /\ style \in {"pixel", "outline"}
       \/ executor = "cli" /\ style = "pixel"
    /\ skip_white \in BOOLEAN
    /\ resolution \in {default_resolution, 50}
    /\ \E s \in Shapes(MaxPrepArea) :
         /\ width = s[1]
         /\ height = s[2]
         /\ image \in [PixelSet(s[1], s[2]) -> {Opaque(c) : c \in OutlineColors}]
    /\ img = NoImage
    /\ has_alpha = FALSE
    /\ palette = <<>>
    /\ color_positions = {Black}
    /\ canvas_area = NoRegion
    /\ query = NoColor
    /\ fail_budget = 0
    /\ pc = "process"

NextPrep ==
    \/ ProcessImage
    \/ Next

SpecPrep == InitPrep /\ [][NextPrep]_vars

(***************************************************************************)
(* Pixel-style sessions on colours of equal and of large channel sums.     *)
(* With an empty palette the groups carry the pixel colours themselves,    *)
(* with a palette that holds every pixel colour they carry its entries.    *)
(* At scale 1 a bitmap lies in one cell, at scale 10 a cell holds two      *)
(* pixels in each direction.                                               *)
(***************************************************************************)
Yellow == <<255, 255, 0>>

\* largest bitmap (width * height) of these sessions
MaxOrderArea == 4

InitOrder ==
    /\ InitLocals
    /\ InitDirectCall
    /\ executor = "gui"
    /\ style = "pixel"
    /\ has_alpha = FALSE
    /\ skip_white = FALSE
    /\ \/ palette = <<>> /\ color_positions = {Red, Blue, Yellow}
       \/ palette = <<Blue, Black, Red>> /\ color_positions = {Red, Blue, Black}
    /\ \E s \in Shapes(MaxOrderArea) :
         /\ width = s[1]
         /\ height = s[2]
         /\ img \in [PixelSet(s[1], s[2]) -> {Opaque(c) : c \in color_positions}]
         /\ \E sc \in {<<1, 1>>, <<GRID_SIZE \div 2, GRID_SIZE \div 2>>} :
                canvas_area = Region(s[1], s[2], sc)
    /\ query = NoColor
    /\ fail_budget = 0
    /\ pc = "ready"

NextOrder ==
    \/ Start
    \/ Cancel
    \/ InitialMove
    \/ PlanPixels
    \/ ColorCheck
    \/ SelectColor
    \/ PixelCheck
    \/ PixelMove
    \/ PixelClick

SpecOrder == InitOrder /\ [][NextOrder]_vars

(***************************************************************************)
(* Sessions in regions of any size relative to the bitmap.  Pixel style    *)
(* scales the bitmap into the region (whole scale factors here); outline   *)
(* style adds the bitmap coordinates to the corner x1, y1, whatever the    *)
(* size of the region is.                                                  *)
(***************************************************************************)
\* largest bitmap (width * height) of these sessions
MaxBoundsArea == 4

\* a region of rw x rh device pixels at Origin
RegionOfSize(rw, rh) == <<Origin[1], Origin[2], Origin[1] + rw, Origin[2] + rh>>

InitBounds ==
    /\ InitLocals
    /\ InitDirectCall
    /\ executor = "gui"
    /\ has_alpha = FALSE
    /\ skip_white = FALSE
    /\ palette = <<>>
    /\ color_positions = {Black, Red}
    /\ \E s \in Shapes(MaxBoundsArea) :
         /\ width = s[1]
         /\ height = s[2]
         /\ \/ /\ style = "pixel"
               /\ img \in [PixelSet(s[1], s[2]) -> {Opaque(Black), Opaque(Red)}]
               /\ \E sc \in {<<1, 1>>, <<3, 1>>, <<2, 5>>} :
                      canvas_area = Region(s[1], s[2], sc)
            \/ /\ style = "outline"
               /\ img \in [PixelSet(s[1], s[2]) -> {Opaque(c) : c \in OutlineColors}]
               /\ \E rw \in {1, s[1], 2 * s[1]}, rh \in {1, s[2], 2 * s[2]} :
                      canvas_area = RegionOfSize(rw, rh)
    /\ query = NoColor
    /\ fail_budget = 0
    /\ pc = "ready"

NextBounds ==
    \/ Start
    \/ Cancel
    \/ InitialMove
    \/ PlanPixels
    \/ ColorCheck
    \/ SelectColor
    \/ PixelCheck
    \/ PixelMove
    \/ PixelClick
    \/ ScanOutline
    \/ SelectBlack
    \/ TraceOuter
    \/ TraceExtend
    \/ SegCheck
    \/ SegMove
    \/ SegDown
    \/ SegDrag
    \/ SegUp

SpecBounds == InitBounds /\ [][NextBounds]_vars

(***************************************************************************)
(* Sessions in each style of "--style" (pixel, outline, vector).           *)
(* draw_image has a branch for "pixel" and one for "outline" and no        *)
(* "else"; for any other style it proceeds from the positioning move to    *)
(* unhook_all and "return True".                                           *)
(***************************************************************************)
Styles == {"pixel", "outline", "vector"}

\* neither "if self.style == 'pixel'" nor "elif self.style == 'outline'"
NoStyleBranch ==
    /\ pc = "plan"
    /\ executor = "gui"
    /\ style \notin {"pixel", "outline"}
    /\ hooks' = 0
    /\ pc' = "finished"
    /\ UNCHANGED <<inputs, stop_drawing, trace, fail_budget, cancel_at,
                   dist_calls, pixvars, outvars, clivars, matchvars, guivars, logvars>>

\* largest bitmap (width * height) of these sessions
MaxStyleArea == 4

InitStyles ==
    /\ InitLocals
    /\ InitDirectCall
    /\ executor = "gui"
    /\ style \in Styles
    /\ has_alpha = FALSE
    /\ skip_white = FALSE
    /\ palette = <<>>
    /\ color_positions = {Black}
    /\ \E s \in Shapes(MaxStyleArea) :
         /\ width = s[1]
         /\ height = s[2]
         /\ img \in [PixelSet(s[1], s[2]) -> {Opaque(c) : c \in OutlineColors}]
         /\ canvas_area = Region(s[1], s[2], <<1, 1>>)
    /\ query = NoColor
    /\ fail_budget = 0
    /\ pc = "ready"

NextStyles ==
    \/ NextBounds
    \/ NoStyleBranch

SpecStyles == InitStyles /\ [][NextStyles]_vars

(***************************************************************************)
(* Successive sessions on one object.  After draw_image has returned, the  *)
(* user loads and processes another image and draw_image is called again:  *)
(* load_image and process_image replace self.image and                     *)
(* self.processed_image only, so self.canvas_area, self.stop_drawing and   *)
(* the key hooks a session left installed are those of the session before. *)
(* A hook that is still installed runs stop_drawing_callback on ESC at any *)
(* time, also before the next draw_image starts.                           *)
(***************************************************************************)
\* largest bitmap (width * height) of these sessions
MaxAgainArea == 2
\* no further session is started with this many hooks left installed
MaxHooks == 2

\* load_image, process_image and the next call of draw_image; the bitmaps
\* are of one colour, black or white.  In pixel
\* style the dimensions of the new bitmap divide those of a region that is
\* set, which keeps pixel_width and pixel_height whole.
NextImage ==
    /\ pc \in Terminal
    /\ hooks < MaxHooks
    /\ \E s \in Shapes(MaxAgainArea) :
         /\ style = "pixel" /\ canvas_area # NoRegion =>
               /\ (canvas_area[3] - canvas_area[1]) % s[1] = 0
               /\ (canvas_area[4] - canvas_area[2]) % s[2] = 0
         /\ width' = s[1]
         /\ height' = s[2]
         /\ \E c \in OutlineColors :
                img' = [p \in PixelSet(s[1], s[2]) |-> Opaque(c)]
    /\ pc' = "ready"
    /\ trace' = <<>>
    /\ cancel_at' = IF stop_drawing THEN 0 ELSE -1
    /\ dist_calls' = 0
    /\ by_color' = EmptyGroups
    /\ colors' = <<>>
    /\ ci' = 1
    /\ cells' = <<>>
    /\ cell_i' = 1
    /\ pix_i' = 1
    /\ depth' = 0
    /\ outline_px' = <<>>
    /\ visited' = {}
    /\ line_segments' = <<>>
    /\ segment' = <<>>
    /\ all_paths' = <<>>
    /\ current' = <<0, 0>>
    /\ ti' = 1
    /\ si' = 1
    /\ dj' = 2
    /\ to_draw' = <<>>
    /\ cli_i' = 1
    /\ drawn' = 0
    /\ log' = <<>>
    /\ UNCHANGED <<executor, style, has_alpha, skip_white, palette,
                   color_positions, canvas_area, session, stop_drawing, hooks,
                   fail_budget, matchvars, guivars>>

\* a first session on an object without a region, on a black or a white
\* bitmap
InitAgain ==
    /\ InitLocals
    /\ InitDirectCall
    /\ \/ executor = "gui" /\ style \in {"pixel", "outline"} /\ has_alpha = FALSE
       \/ executor = "cli" /\ style = "pixel" /\ has_alpha = TRUE
    /\ \E s \in Shapes(MaxAgainArea) :
         /\ width = s[1]
         /\ height = s[2]
         /\ \E c \in OutlineColors :
                img = [p \in PixelSet(s[1], s[2]) |-> Opaque(c)]
    /\ skip_white = FALSE
    /\ palette = <<>>
    /\ color_positions = {Black}
    /\ canvas_area = NoRegion
    /\ query = NoColor
    /\ fail_budget = 0
    /\ pc = "ready"

NextAgain ==
    \/ NextImage
    \/ Next

SpecAgain == InitAgain /\ [][NextAgain]_vars

(***************************************************************************)
(* The recent files of the GUI.  AutoDrawGUI.__init__ sets recent_files to *)
(* [] and load_recent_files replaces it only by a "recent_files" entry of  *)
(* the settings file, which save_recent_files alone writes.                *)
(* select_local_file asks for a path; for a path chosen it calls           *)
(* add_to_recent_files and then load_and_preview_image.  No statement of   *)
(* the program assigns max_recent_files, so the slice                      *)
(* "self.recent_files[:self.max_recent_files]" raises AttributeError:      *)
(* add_to_recent_files ends after the insert, and select_local_file, which *)
(* has no handler, ends with it.                                           *)
(***************************************************************************)
\* number of different paths the dialog can return
MaxPaths == 4
Paths == 1..MaxPaths

\* list.remove: the first occurrence goes
RemoveFirst(s, e) ==
    IF \E i \in 1..Len(s) : s[i] = e
    THEN LET i == CHOOSE k \in 1..Len(s) : s[k] = e /\ \A m \in 1..(k - 1) : s[m] # e
         IN  SubSeq(s, 1, i - 1) \o SubSeq(s, i + 1, Len(s))
    ELSE s

\* add_to_recent_files up to the statement that raises: the path is
\* removed if present and inserted at index 0
add_to_recent_files(files, path) == <<path>> \o RemoveFirst(files, path)

\* select_local_file: the dialog is cancelled (empty path), or a path is
\* chosen whose file exists or not at the time of os.path.exists
SelectLocalFile ==
    /\ pc = "gui"
    /\ \/ /\ file_path' = [path |-> NoFile, exists |-> FALSE]
          /\ UNCHANGED <<recent_files, previewed>>
       \/ \E path \in Paths, exists \in BOOLEAN :
            /\ file_path' = [path |-> path, exists |-> exists]
            /\ IF exists
               THEN /\ recent_files' = add_to_recent_files(recent_files, path)
                    /\ previewed' = previewed
               ELSE /\ recent_files' = recent_files
                    /\ previewed' = path
    /\ UNCHANGED <<inputs, stop_drawing, hooks, pc, trace, fail_budget,
                   cancel_at, dist_calls, pixvars, outvars, clivars,
                   matchvars, logvars>>

\* the GUI after __init__, no image loaded
InitRecent ==
    /\ InitLocals
    /\ InitDirectCall
    /\ executor = "gui"
    /\ style = "pixel"
    /\ width = 0
    /\ height = 0
    /\ img = NoImage
    /\ has_alpha = FALSE
    /\ skip_white = TRUE
    /\ palette = <<>>
    /\ color_positions = {}
    /\ canvas_area = NoRegion
    /\ query = NoColor
    /\ fail_budget = 0
    /\ pc = "gui"

NextRecent == SelectLocalFile

SpecRecent == InitRecent /\ [][NextRecent]_vars

(***************************************************************************)
(* Properties of planning and of the outcome of draw_image.                *)
(***************************************************************************)
\* draw_image has returned; its return value
Returned == pc \in Terminal
ReturnValue == pc \in {"finished", "stopped"}

\* the distinct colours of the pixels the grouping loop does not skip
DistinctVisibleColors == {img[p].rgb : p \in VisiblePixels}

\* C11: after the grouping loop of a pixel-style session, the palette was
\* scanned at most once per distinct colour of the visible pixels: the
\* number of distance evaluations is at most (distinct colours) * (palette
\* length).
MatchingMemoized ==
    (GuiPixel /\ PixelsPlanned) =>
        dist_calls <= Cardinality(DistinctVisibleColors) * Len(palette)

\* C13: a pixel-style session on a bitmap whose pixels are all at or above
\* the white threshold, without a failing actuator call, issues no
\* SelectColor, MoveTo or Click after the positioning move and does not
\* end in Error.
AllWhiteStreamEmpty ==
    (GuiPixel /\ VisiblePixels = {} /\ Returned /\ AllOk) =>
        /\ Len(trace) <= 1
        /\ pc # "error"

\* C14: an outline session on a bitmap without dark pixels, without a
\* failing actuator call, issues no segment action and draw_image returns
\* True.
ZeroDarkIsSuccess ==
    (GuiOutline /\ DarkSet = {} /\ Returned /\ AllOk) =>
        /\ \A i \in Indices : OpAt(i) \notin {"PressDown", "DragTo", "Release"}
        /\ ReturnValue

\* C12: with skip_white on, a pixel of the processed (resized) image is
\* marked background (alpha 0) exactly when all three of its channels reach
\* the white threshold 245, and this holds for both executors.  The
\* comparison is read as the code's own >=, the reading most favourable to
\* the statement.
BackgroundAtThreshold ==
    (pc = "ready" /\ img # NoImage /\ skip_white) =>
        \A p \in DOMAIN img :
            img[p].a = 0 <=> AllAtLeast(img[p].rgb, white_threshold)

\* the colour of pixel p was clicked by a colour selection
Selected(p) == \E i \in Indices : trace[i] = SelectColorAct(Target(p), TRUE)

\* C15: a colour whose screen position the selection step cannot determine
\* is skipped without failing the session: in pixel style no MoveTo+Click
\* is issued for a pixel whose colour was never selected, and in outline
\* style a black without a known position does not make draw_image report
\* a failure.
UnknownColourSkipped ==
    /\ (GuiPixel /\ img # NoImage /\ Returned) =>
           \A p \in VisiblePixels : ~Selected(p) => PairsAt(Centre(p)) = {}
    /\ (GuiOutline /\ img # NoImage /\ DarkSet # {}
          /\ find_closest_color(palette, Black) \notin color_positions) =>
           pc # "rejected"

\* C16: without a loaded and processed image no action stream is produced:
\* as long as there is no processed image no actuator call has been made
\* and no key hook is installed, a caller holding no processed image is
\* loading, processing or has returned, a caller that reported a failed
\* load or a failed process_image has returned without reaching
\* draw_image, and draw_image called without an image returns False.
NoImageNoStream ==
    /\ img = NoImage =>
          /\ trace = <<>>
          /\ hooks = 0
          /\ pc \in {"load", "process", "exit", "ready", "rejected"}
          /\ driver \in Drivers => pc \in {"load", "process", "exit"}
    /\ report \in {"load failed", "process failed"} =>
          /\ img = NoImage
          /\ pc = "exit"
    /\ pc = "rejected" /\ img = NoImage => ~ReturnValue

\* draw_image was called without a processed image and has returned
DrawnWithoutImage == pc = "rejected" /\ img = NoImage /\ driver = "none"

\* C17: a cancellation is a successful partial completion: a draw_image
\* that stopped on the flag has returned True with the flag still set,
\* every caller of a draw_image that returned True with the flag set
\* reports "stopped by user", and a failure always has a cause other than
\* the flag (a failed actuator call, a negative speed, a zero elapsed time).
CancelIsPartialSuccess ==
    /\ pc = "stopped" => (stop_drawing /\ ReturnValue)
    /\ (ReturnValue /\ stop_drawing /\ driver \in Drivers) =>
           report \in {"none", "stopped by user"}
    /\ pc = "error" => (~AllOk \/ speed < 0 \/ colors = <<>>)

\* a caller reported a drawing that the user stopped part-way
StoppedPartWay ==
    /\ report = "stopped by user"
    /\ pc = "stopped"
    /\ Len(trace) > 1

\* C20: the sleep that follows a colour selection and precedes the next
\* pointer action is never shorter than 200 ms, whatever the speed.
SettleFloor ==
    \A i \in Indices : OpAt(i) = "SelectColor" => trace[i].settle >= 200

\* colours were selected under a negative speed and the pointer moved on
SettledAtNegativeSpeed ==
    /\ speed < 0
    /\ \E i \in Indices :
         /\ OpAt(i) = "SelectColor"
         /\ i < Len(trace)
         /\ OpAt(i + 1) = "MoveTo"

\* C19: the cancellation flag is written by the ESC callback only: every
\* step that changes stop_drawing sets it and is no step of draw_image or
\* of its caller (their position pc stays where it is).
FlagWrittenByCancelOnly ==
    [][stop_drawing' # stop_drawing => (stop_drawing' /\ pc' = pc)]_vars

\* C18: every call of draw_image returns, cancelled or not, in one of the
\* outcomes Stopped, Finished (both True) or Error (False), and once it has
\* returned the outcome stays and no further actuator call is made.
DrawImageTerminates ==
    /\ (pc = "ready") ~> Returned
    /\ [][Returned => (pc' = pc /\ trace' = trace)]_vars

\* a call that drew and returned after a cancel
ReturnedAfterCancel ==
    /\ Returned
    /\ cancel_at >= 0
    /\ Len(trace) > 2

\* C21: a missing region does not fail the drawing: draw_image never works
\* with a missing region, and the region it substitutes has the bitmap's
\* width and height (both scale factors are 1) and is centred on the
\* screen, the right and bottom margins exceeding the left and top ones by
\* at most 1.
DefaultRegionCentred ==
    /\ [](pc \notin {"area", "ready"} => canvas_area # NoRegion)
    /\ [][(pc = "ready" /\ canvas_area = NoRegion /\ pc' # "ready") =>
            /\ canvas_area'[3] - canvas_area'[1] = width
            /\ canvas_area'[4] - canvas_area'[2] = height
            /\ pixel_width(canvas_area', width) = 1
            /\ pixel_height(canvas_area', height) = 1
            /\ (screen[1] - canvas_area'[3]) - canvas_area'[1] \in {0, 1}
            /\ (screen[2] - canvas_area'[4]) - canvas_area'[2] \in {0, 1}
            /\ pc' \in {"position", "plan"}]_vars

\* a session without a selected region drew every pixel and finished
DrawnInDefaultRegion ==
    /\ pc = "finished"
    /\ canvas_area = default_area(screen, width, height)
    /\ OpCount("Click") + OpCount("DragTo") > 0

\* C22: every region draw_image uses has x1 < x2 and y1 < y2, hence both
\* scale factors are positive.
RegionStrictlyOrdered ==
    pc \notin {"area", "ready"} =>
        /\ canvas_area[1] < canvas_area[3]
        /\ canvas_area[2] < canvas_area[4]
        /\ pixel_width(canvas_area, width) > 0
        /\ pixel_height(canvas_area, height) > 0

\* C23: when draw_image returns after a normal completion, a cancellation
\* or an actuator failure, the log states the number of pixels or points
\* drawn so far: its last count line exists and names the current count.
ProgressReportedAtReturn ==
    pc \in {"finished", "stopped", "error"} =>
        /\ log # <<>>
        /\ log[Len(log)].done = drawn

\* C24: during pixel-style execution no more than 500 pixels are drawn
\* without a progress line: the count of pixels drawn exceeds the count of
\* the last progress line (0 before the first line) by at most 500.
ProgressCadence ==
    LET reported == IF log = <<>> THEN 0 ELSE log[Len(log)].done
    IN  style = "pixel" => drawn - reported <= progress_every

\* the background marking as it shows in a stored bitmap: the pixel style
\* of AutoDraw marks exactly the pixels at or above 245, SimpleAutoDraw
\* those at or above 240, and the outline transform, which comes last,
\* leaves an opaque black and white bitmap
MarkedAfterResize(bm) ==
    \A p \in DOMAIN bm :
        IF executor = "cli"
        THEN skip_white /\ AllAtLeast(bm[p].rgb, cli_white_threshold)
                 => bm[p].a = 0
        ELSE IF style = "pixel"
        THEN bm[p].a = 0
                 <=> skip_white /\ AllAtLeast(bm[p].rgb, white_threshold)
        ELSE bm[p] \in {Opaque(c) : c \in OutlineColors}

\* C25: process_image resizes first, to int(width * resolution) by
\* int(height * resolution) (100x100 at 0.5 gives 50x50, 1.0 changes
\* nothing), marks the background of the resized bitmap, applies the style
\* transform last, and nothing changes the stored bitmap or its dimensions
\* afterwards.
PreprocessOrder ==
    /\ [](resolution = 50 => Scaled(100) = 50)
    /\ [][(pc = "process" /\ pc' = "ready") =>
            /\ resolution = default_resolution =>
                   width' = width /\ height' = height
            /\ 100 * width' <= width * resolution
            /\ width * resolution < 100 * (width' + 1)
            /\ 100 * height' <= height * resolution
            /\ height * resolution < 100 * (height' + 1)
            /\ DOMAIN img' = PixelSet(width', height')
            /\ MarkedAfterResize(img')]_vars
    /\ [][pc # "process" =>
            width' = width /\ height' = height /\ img' = img]_vars

\* a 2x2 image was halved to 1x1, its pixel marked as background, and the
\* session on the stored bitmap has finished
HalvedThenMarked ==
    /\ pc = "finished"
    /\ resolution = 50
    /\ DOMAIN image = PixelSet(2, 2)
    /\ width = 1
    /\ height = 1
    /\ img[<<0, 0>>].a = 0

\* C26: the distance of a colour to itself is exactly zero: wherever the
\* palette holds the query colour, delta_e_cie94(rgb2lab(query),
\* rgb2lab(query)) is 0.
SelfDistanceZero ==
    /\ DistanceTable[<<query, query>>] = 0
    /\ \A i \in 1..Len(palette) :
         palette[i] = query => Distance(palette, query, i) = 0

\* a search over a palette that holds the query colour twice has returned
\* its first entry
SelfDistanceEvaluated ==
    /\ pc = "matched"
    /\ Len(palette) = 2
    /\ palette[1] = query
    /\ palette[2] = query
    /\ closest_idx = 1

\* C27: the colour groups of the pixel style are visited in ascending
\* order of channel sum, groups of equal sum in the order in which the
\* row-major scan first met them.
GroupsAscending ==
    LET seen(c) == CHOOSE n \in 1..Len(by_color.keys) : by_color.keys[n] = c
    IN  \A i, j \in 1..Len(colors) :
            i < j =>
                \/ ChannelSum(colors[i]) < ChannelSum(colors[j])
                \/ /\ ChannelSum(colors[i]) = ChannelSum(colors[j])
                   /\ seen(colors[i]) < seen(colors[j])

\* C28: while a colour is drawn, its points are partitioned into cells of
\* 20x20 device units, every point in exactly one cell and exactly once;
\* a cell starts with the point enumerated first for it, every next point
\* is a remaining point of the cell nearest to the previous one, the one
\* enumerated first among equally near ones; and the pointer has visited
\* the points in the order of the cells, each cell completed before the
\* next.
CellsNearestNeighbour ==
    pc \in {"pixel_check", "move", "click"} =>
        LET pts == by_color.pts[colors[ci]]
            pos(pt) == CHOOSE n \in 1..Len(pts) : pts[n] = pt
            flat == Flatten(cells, 1)
            done == Len(Flatten(SubSeq(cells, 1, cell_i - 1), 1)) + pix_i - 1
            base == Len(trace) - (IF pc = "click" THEN 1 ELSE 0) - 2 * done
        IN  /\ Len(flat) = Len(pts)
            /\ \A n \in 1..Len(pts) : \E q \in 1..Len(flat) : flat[q] = pts[n]
            /\ \A c, d \in 1..Len(cells) :
                 \A k \in 1..Len(cells[c]), m \in 1..Len(cells[d]) :
                     CellKey(canvas_area, cells[c][k])
                         = CellKey(canvas_area, cells[d][m]) <=> c = d
            /\ \A c \in 1..Len(cells) :
                 /\ cells[c] # <<>>
                 /\ \A k \in 1..Len(cells[c]) :
                        pos(cells[c][1]) <= pos(cells[c][k])
                 /\ \A k \in 2..Len(cells[c]) : \A m \in k..Len(cells[c]) :
                        LET dk == Dist2(cells[c][k], cells[c][k - 1])
                            dm == Dist2(cells[c][m], cells[c][k - 1])
                        IN  \/ dk < dm
                            \/ dk = dm /\ pos(cells[c][k]) <= pos(cells[c][m])
            /\ \A q \in 1..done :
                 /\ trace[base + 2 * q - 1] = MoveTo(flat[q], TRUE)
                 /\ trace[base + 2 * q] = Click(TRUE)
            /\ pc = "click" => trace[Len(trace)] = MoveTo(flat[done + 1], TRUE)

\* the four pixels of a 2x2 bitmap of one colour lie in one cell and have
\* been visited in an order that is not the order of the scan: after the
\* second pixel of the first row comes the second pixel of the second row
NearestBeforeScanOrder ==
    /\ pc = "finished"
    /\ width = 2
    /\ height = 2
    /\ Len(colors) = 1
    /\ Len(cells) = 1
    /\ cells[1][3] = Centre(<<1, 1>>)
    /\ cells[1][4] = Centre(<<0, 1>>)
    /\ OpCount("Click") = 4

\* C29: whenever draw_image has returned, the ESC key hook it installed is
\* removed again: no hook is left behind for the next session.
HookRemovedAtReturn == pc \in Terminal => hooks = 0

\* C30: in outline style the pointer button is not left pressed.  At every
\* return of draw_image every PressDown that succeeded is followed by its
\* Release with only DragTo actions between them, and while the button is
\* down the session stays inside the segment, whether or not ESC has been
\* pressed: a cancellation takes effect only after the Release.
ButtonReleasedAtReturn ==
    GuiOutline =>
        /\ (Returned =>
              \A i \in Indices :
                  OpAt(i) = "PressDown" /\ trace[i].ok =>
                      \E j \in (i + 1)..Len(trace) :
                          /\ OpAt(j) = "Release"
                          /\ \A k \in (i + 1)..(j - 1) : OpAt(k) = "DragTo")
        /\ (trace # <<>> =>
              LET last == trace[Len(trace)]
              IN  \/ last.op = "DragTo"
                  \/ last.op = "PressDown" /\ last.ok
                  => pc \in {"seg_drag", "seg_up"})

\* a session cancelled while the button was down: ESC came right after a
\* PressDown, the segment was drawn to its end and released, then
\* draw_image returned
CancelledMidSegment ==
    /\ GuiOutline
    /\ pc = "stopped"
    /\ AllOk
    /\ cancel_at \in Indices
    /\ OpAt(cancel_at) = "PressDown"
    /\ OpAt(Len(trace)) = "Release"
    /\ \E i \in Indices : OpAt(i) = "DragTo"

\* C31: every MoveTo and every DragTo issued for a bitmap pixel has its
\* target inside the region: x1 <= x <= x2 and y1 <= y <= y2 (trace
\* coordinates are doubled), in pixel style and in outline style.
TargetsInsideRegion ==
    \A i \in Indices :
        OpAt(i) \in {"MoveTo", "DragTo"} =>
            /\ 2 * canvas_area[1] <= trace[i].x
            /\ trace[i].x <= 2 * canvas_area[3]
            /\ 2 * canvas_area[2] <= trace[i].y
            /\ trace[i].y <= 2 * canvas_area[4]

\* C32: in each style, a session that finished with the stop flag clear
\* over a bitmap with at least one visible, non-background pixel has
\* issued at least one Click or DragTo.
FinishedHasDrawn ==
    pc = "finished" /\ ~stop_drawing /\ VisiblePixels # {} =>
        OpCount("Click") + OpCount("DragTo") > 0

\* C33: with skip_white disabled, a pixel-style session that ran to its end
\* without cancellation has issued a MoveTo+Click pair at the centre of
\* every pixel of the bitmap, white and near-white pixels included, in
\* both executors.
NoSkipWhiteDrawsEveryPixel ==
    ~skip_white /\ style = "pixel" /\ pc = "finished" /\ cancel_at = -1 /\ AllOk =>
        \A p \in PixelSet(width, height) : PairsAt(Centre(p)) # {}

\* C34: no region is ever chosen by the user in these sessions, so every
\* draw_image works in the centred default region computed from the
\* dimensions of the bitmap it draws.
DefaultRegionPerSession ==
    pc # "ready" => canvas_area = default_area(screen, width, height)

\* every action draw_image has to make for the bitmap has been made: a Click
\* for every pixel to draw in pixel style, and in outline style every dark
\* pixel traced and every segment drawn
ExecutedAll ==
    IF style = "outline"
    THEN DarkSet \subseteq visited /\ pc \in Terminal /\ si > Len(line_segments)
    ELSE OpCount("Click")
           = (IF executor = "cli" THEN Cardinality({p \in PixelSet(width, height) : img[p].a # 0})
              ELSE Cardinality(VisiblePixels))

\* C35: under every interleaving of the ESC callback with draw_image, the
\* caller reports "stopped by user" only if at least one planned action was
\* not executed, and "completed" only if every planned action was
\* executed.
ReportMatchesExecution ==
    /\ report = "stopped by user" => ~ExecutedAll
    /\ report = "completed" => ExecutedAll

\* C36: a cancellation belongs to one session.  draw_image starts with the
\* flag cleared and no actuator action made, whatever an earlier session
\* or an ESC press before the call left in the flag; and once a session
\* has started, the flag is set only if ESC was pressed during this
\* session, so a session stops only on its own cancellation.
FlagFreshPerSession ==
    /\ [][pc = "ready" /\ pc' # "ready" => ~stop_drawing' /\ trace' = <<>>]_vars
    /\ [](pc # "ready" /\ stop_drawing => cancel_at >= 0)
    /\ [](pc = "stopped" => stop_drawing /\ cancel_at >= 0)

\* a session that follows a cancelled pixel-style session, whose hook is
\* still installed, draws while the flag is clear
DrawingAfterCancelledSession ==
    /\ hooks = 2
    /\ ~stop_drawing
    /\ OpCount("Click") > 0

\* C37: a CLI session without cancellation and without failure issues,
\* after the positioning move, exactly one MoveTo+Click pair for every
\* pixel whose alpha is not 0, at the centre of the pixel, in row-major
\* order, and no SelectColor; at completion pixels_drawn plus
\* skipped_pixels is width * height.
CliStreamRowMajor ==
    executor = "cli" /\ pc = "finished" /\ cancel_at = -1 /\ AllOk =>
        LET kept == SelectSeq(RowMajor(width, height), LAMBDA p : img[p].a # 0)
        IN  /\ Len(trace) = 1 + 2 * Len(kept)
            /\ \A k \in 1..Len(kept) :
                  /\ trace[2 * k] = MoveTo(Centre(kept[k]), TRUE)
                  /\ trace[2 * k + 1] = Click(TRUE)
            /\ \A i \in Indices : OpAt(i) # "SelectColor"
            /\ drawn + cli_skipped_pixels(img, width, height) = width * height

\* a finished CLI session on a bitmap of two rows and two columns with a
\* transparent pixel and pixels drawn in both rows
CliSkippedAndDrawn ==
    /\ executor = "cli"
    /\ pc = "finished"
    /\ cancel_at = -1
    /\ width = 2
    /\ height = 2
    /\ img[<<0, 0>>].a = 0
    /\ drawn = 3

\* C38: after select_local_file was given the path of an existing file,
\* the path is at the front of recent_files and occurs in it once, and
\* load_and_preview_image has been called with it.
RecentFrontAndPreviewed ==
    file_path.path # NoFile /\ file_path.exists =>
        /\ recent_files # <<>>
        /\ recent_files[1] = file_path.path
        /\ Cardinality({i \in 1..Len(recent_files) :
                           recent_files[i] = file_path.path}) = 1
        /\ previewed = file_path.path

====
